---- MODULE Spec2Model ----
(***************************************************************************)
(* battle-service: a FastAPI backend that looks players and matches up in  *)
(* the PUBG stats API and asks an LLM provider for coaching feedback.      *)
(*                                                                         *)
(* Python values are modelled as follows.  A str that the code inspects    *)
(* (an exception message) is a sequence of one-character strings, so that  *)
(* `in` and .lower() are computed.  A dict is a function from keys to      *)
(* values and dict.get is Get.  None is the record NoneVal.  A float is an *)
(* exact rational <<numerator, denominator>>.                              *)
(***************************************************************************)
EXTENDS Integers, Sequences, FiniteSets, TLC

VARIABLES
    \* process environment and import-time globals
    GEMINI_API_KEY, OPENAI_API_KEY, GEMINI_AVAILABLE, openai_importable,
    \* one HTTP request: the handler serving it and the handler's locals
    handler, pc, player_id, upstream, match_details, teammates, response,
    \* the exception raised in the handler's body, the stats client's last
    \* call, and the locals of player_profile and get_trend_analysis
    raised, lookup, stats_data, recent_matches, issued, outstanding, n_detailed,
    \* one AIAnalysisService instance and the analysis call in progress
    ai, method, lpc, game_mode, matches_data, error_msg, result,
    n_gemini, n_probe, n_ollama, n_openai, calls,
    \* what the availability probe of the local provider last came back with
    probe_status,
    \* weapon efficiency ranking
    weapon_stats, weapon_mastery, wpc, best_weapons, weak_weapons,
    shown_best, shown_weak,
    \* metrics aggregator
    apc, trend_data,
    \* analysis data and prompt builder: the arguments of
    \* analyze_match_performance, the prepared data, the prompt's parts, and
    \* what extract_match_weapons_data returned
    analysis_input, analysis_data, prompt, match_weapons,
    \* analysis requests in flight at once: each request's coroutine frame, the
    \* AIAnalysisService objects constructed so far, and the key the Gemini
    \* library was last configured with
    requests, instances, genai_api_key

envVars == <<GEMINI_API_KEY, OPENAI_API_KEY, GEMINI_AVAILABLE, openai_importable>>
loopVars == <<recent_matches, issued, outstanding, n_detailed>>
reqVars == <<handler, pc, player_id, upstream, match_details, teammates, response,
             raised, lookup, stats_data, loopVars>>
llmVars == <<ai, method, lpc, game_mode, error_msg, result,
             n_gemini, n_probe, n_ollama, n_openai, calls, probe_status>>
wpnVars == <<weapon_stats, weapon_mastery, wpc, best_weapons, weak_weapons,
             shown_best, shown_weak>>
aggVars == <<apc, trend_data>>
promptVars == <<analysis_input, analysis_data, prompt, match_weapons>>
conVars == <<requests, instances, genai_api_key>>
vars == <<envVars, reqVars, llmVars, matches_data, wpnVars, aggVars, promptVars,
          conVars>>

-----------------------------------------------------------------------------
(* Python values *)

NoneVal == [kind |-> "None"]

IsNone(v) == v = NoneVal

\* {} where the model needs it as a value of its own
EmptyDict == [kind |-> "empty_dict"]

\* dict.get(key, default)
Get(d, key, default) == IF key \in DOMAIN d THEN d[key] ELSE default

Min(a, b) == IF a < b THEN a ELSE b

Max(a, b) == IF a > b THEN a ELSE b

UpperChars == <<"A","B","C","D","E","F","G","H","I","J","K","L","M",
                "N","O","P","Q","R","S","T","U","V","W","X","Y","Z">>

LowerChars == <<"a","b","c","d","e","f","g","h","i","j","k","l","m",
                "n","o","p","q","r","s","t","u","v","w","x","y","z">>

LowerChar(c) ==
    IF \E i \in DOMAIN UpperChars : UpperChars[i] = c
    THEN LowerChars[CHOOSE i \in DOMAIN UpperChars : UpperChars[i] = c]
    ELSE c

\* str.lower()
Lower(s) == [i \in DOMAIN s |-> LowerChar(s[i])]

\* sub in s
Contains(sub, s) ==
    \E i \in 0..(Len(s) - Len(sub)) : SubSeq(s, i + 1, i + Len(sub)) = sub

-----------------------------------------------------------------------------
(* Floats as exact rationals <<numerator, denominator>>, denominator > 0 *)

RECURSIVE GCD(_, _)
GCD(a, b) == IF b = 0 THEN a ELSE GCD(b, a % b)

\* lowest terms, for n >= 0 and d > 0
Norm(n, d) == <<n \div GCD(n, d), d \div GCD(n, d)>>

Rat(n) == <<n, 1>>

RatAdd(a, b) == Norm(a[1] * b[2] + b[1] * a[2], a[2] * b[2])

RatMul(a, b) == Norm(a[1] * b[1], a[2] * b[2])

\* a / b for b > 0
RatDiv(a, b) == Norm(a[1] * b[2], a[2] * b[1])

RatLt(a, b) == a[1] * b[2] < b[1] * a[2]

\* the result of a true division by zero, where Python raises
NaR == <<0, 0>>

\* a / b
Quotient(a, b) ==
    IF a = NaR \/ b = NaR \/ b[1] = 0 THEN NaR ELSE RatDiv(a, b)

\* q * 100
Percent(q) == IF q = NaR THEN NaR ELSE RatMul(q, Rat(100))

\* max(a, b) on rationals
RatMax(a, b) == IF RatLt(a, b) THEN b ELSE a

RatEq(a, b) == a[1] * b[2] = b[1] * a[2]

-----------------------------------------------------------------------------
(* Weapon statistics and the weapon efficiency ranking *)

\* an insertion-ordered dict is a sequence of <<key, value>> pairs
RECURSIVE DictFind(_, _, _)
DictFind(d, key, i) ==
    IF i > Len(d) THEN 0
    ELSE IF d[i][1] = key THEN i
    ELSE DictFind(d, key, i + 1)

\* d[key] = value: an existing key keeps its place
DictSet(d, key, value) ==
    IF DictFind(d, key, 1) = 0
    THEN Append(d, <<key, value>>)
    ELSE [d EXCEPT ![DictFind(d, key, 1)] = <<key, value>>]

MoreUsed(a, b) == Get(a, "TimesUsed", 0) > Get(b, "TimesUsed", 0)

HigherScore(a, b) == RatLt(b[3], a[3])

LowerScore(a, b) == RatLt(a[3], b[3])

\* the sort keys used by the code: a strictly precedes b
Precedes(order, a, b) ==
    CASE order = "times_used_desc" -> MoreUsed(a, b)
      [] order = "score_desc" -> HigherScore(a, b)
      [] order = "score_asc" -> LowerScore(a, b)

\* the position where x goes into the sorted sequence s: before the first
\* element that x strictly precedes, which keeps equal elements in order
RECURSIVE InsertPos(_, _, _, _)
InsertPos(s, x, i, order) ==
    IF i > Len(s) THEN i
    ELSE IF Precedes(order, x, s[i]) THEN i
    ELSE InsertPos(s, x, i + 1, order)

InsertAt(s, x, i) == SubSeq(s, 1, i - 1) \o <<x>> \o SubSeq(s, i, Len(s))

\* list.sort / sorted: a stable sort
RECURSIVE StableSort(_, _)
StableSort(s, order) ==
    IF Len(s) = 0 THEN <<>>
    ELSE LET front == StableSort(SubSeq(s, 1, Len(s) - 1), order)
             x == s[Len(s)]
         IN  InsertAt(front, x, InsertPos(front, x, 1, order))

TopWeapons == 5

\* one entry of processed_weapons
ProcessedWeapon(weapon) ==
    [times_used |-> Get(weapon, "TimesUsed", 0),
     kills |-> Get(weapon, "Kills", 0),
     damage |-> Get(weapon, "DamageDealt", 0),
     headshots |-> Get(weapon, "HeadshotKills", 0),
     longest_kill |-> Get(weapon, "LongestKill", 0),
     avg_damage_per_use |->
         Quotient(Rat(Get(weapon, "DamageDealt", 0)),
                  Rat(Max(Get(weapon, "TimesUsed", 1), 1)))]

RECURSIVE ProcessLoop(_, _, _)
ProcessLoop(top_weapons, i, processed_weapons) ==
    IF i > Len(top_weapons) THEN processed_weapons
    ELSE ProcessLoop(top_weapons, i + 1,
             DictSet(processed_weapons,
                     Get(top_weapons[i], "WeaponName", "Unknown"),
                     ProcessedWeapon(top_weapons[i])))

\* _process_weapon_stats on the weaponSummaries list
process_weapon_stats(weapons_data) ==
    LET sorted == StableSort(weapons_data, "times_used_desc")
        top_weapons == SubSeq(sorted, 1, Min(TopWeapons, Len(sorted)))
    IN  ProcessLoop(top_weapons, 1, <<>>)

MinTimesUsed == 10

ExcludedMutant(stats) == stats.times_used < 2

\* the weapon is skipped by the ranking loop
Excluded(stats) == stats.times_used < MinTimesUsed

kill_rate(stats) == Quotient(Rat(stats.kills), Rat(Max(stats.times_used, 1)))

headshot_rate(stats) ==
    IF stats.kills > 0
    THEN Quotient(Rat(stats.headshots), Rat(Max(stats.kills, 1)))
    ELSE Rat(0)

weapon_scoreMutant(stats) ==
    RatAdd(RatAdd(RatMul(kill_rate(stats), Rat(100)),
                  RatMul(stats.avg_damage_per_use, <<1, 10>>)),
           RatMul(RatDiv(Rat(stats.headshots), Rat(Max(stats.times_used, 1))),
                  Rat(50)))

weapon_score(stats) ==
    RatAdd(RatAdd(RatMul(kill_rate(stats), Rat(100)),
                  RatMul(stats.avg_damage_per_use, <<1, 10>>)),
           RatMul(headshot_rate(stats), Rat(50)))

StrongThreshold == 30

WeakThreshold == 15

\* the loop of _generate_weapon_recommendations: <<best_weapons, weak_weapons>>
\* as lists of <<weapon_name, stats, weapon_score>>
RECURSIVE RankLoop(_, _, _, _)
RankLoop(mastery, i, best, weak) ==
    IF i > Len(mastery) THEN <<best, weak>>
    ELSE LET weapon_name == mastery[i][1]
             stats == mastery[i][2]
             score == weapon_score(stats)
         IN  IF Excluded(stats)
             THEN RankLoop(mastery, i + 1, best, weak)
             ELSE IF RatLt(Rat(StrongThreshold), score)
             THEN RankLoop(mastery, i + 1,
                           Append(best, <<weapon_name, stats, score>>), weak)
             ELSE IF RatLt(score, Rat(WeakThreshold))
             THEN RankLoop(mastery, i + 1, best,
                           Append(weak, <<weapon_name, stats, score>>))
             ELSE RankLoop(mastery, i + 1, best, weak)

ShownBest == 3

ShownWeak == 2

\* best_weapons[:3], the entries written under the "keep using" heading
BestShown(best) == SubSeq(best, 1, Min(ShownBest, Len(best)))

WeakShownMutant(weak) == SubSeq(weak, 1, Min(1, Len(weak)))

\* weak_weapons[:2], the entries written under the "needs work" heading
WeakShown(weak) == SubSeq(weak, 1, Min(ShownWeak, Len(weak)))

-----------------------------------------------------------------------------
(* Metrics aggregator *)

TrendWindow == 10

TrendSliceMutant(s) == SubSeq(s, 1, Min(TrendWindow, Len(s)))

\* s[-10:]
TrendSlice(s) == SubSeq(s, Max(1, Len(s) - TrendWindow + 1), Len(s))

RECURSIVE SumField(_, _, _)
SumField(s, key, default) ==
    IF Len(s) = 0 THEN 0
    ELSE Get(s[1], key, default) + SumField(Tail(s), key, default)

Column(s, key, default) == [i \in DOMAIN s |-> Get(s[i], key, default)]

MeanMutant(data, key, default) ==
    RatDiv(Rat(SumField(TrendSlice(data), key, default)),
           Rat(Len(TrendSlice(data))))

\* sum(m.get(key, default) for m in matches_data) / total_matches
Mean(data, key, default) ==
    RatDiv(Rat(SumField(data, key, default)), Rat(Len(data)))

\* the dictionary _aggregate_match_data returns for a non-empty list
Averages(data) ==
    [total_matches |-> Len(data),
     avg_kills |-> Mean(data, "kills", 0),
     avg_damage |-> Mean(data, "damage", 0),
     avg_dbnos |-> Mean(data, "dbnos", 0),
     avg_revives |-> Mean(data, "revives", 0),
     avg_assists |-> Mean(data, "assists", 0),
     avg_headshots |-> Mean(data, "headshots", 0),
     avg_rank |-> Mean(data, "rank", 100),
     kill_trend |-> Column(TrendSlice(data), "kills", 0),
     rank_trend |-> Column(TrendSlice(data), "rank", 100),
     dbnos_trend |-> Column(TrendSlice(data), "dbnos", 0),
     revives_trend |-> Column(TrendSlice(data), "revives", 0)]

\* a division by len(matches_data) = 0
ZeroDivisionError == [type |-> "ZeroDivisionError"]

aggregate_match_dataMutant(data) ==
    IF Len(data) = 0
    THEN [kind |-> "raise", exc |-> ZeroDivisionError]
    ELSE Averages(data)

\* _aggregate_match_data
aggregate_match_data(data) ==
    LET total_matches == Len(data)
    IN  IF total_matches = 0 THEN EmptyDict ELSE Averages(data)

-----------------------------------------------------------------------------
(* Environment: what os.getenv returns and which libraries import *)

\* None in a slot that otherwise holds a str
NoneStr == "None"

\* os.getenv: an unset variable, an empty one, a set one
EnvValues == {NoneStr, "", "key"}

\* truth value of a key: None and "" are falsy
KeySet(v) == v \notin {NoneStr, ""}

\* match_info["gameMode"] values: JSON null or a mode tag
NullMode == <<NoneStr>>

SquadFpp == <<"s","q","u","a","d","-","f","p","p">>

GameModes == {NullMode, SquadFpp}

InitEnv ==
    /\ GEMINI_API_KEY \in EnvValues
    /\ OPENAI_API_KEY \in EnvValues
    /\ GEMINI_AVAILABLE \in BOOLEAN
    /\ openai_importable \in BOOLEAN

-----------------------------------------------------------------------------
(* PUBGAPIService: the stats client *)

\* what one GET on the stats API does: client.get raises, raise_for_status
\* raises, response.json() raises, or a JSON body arrives
UpstreamFailures == {[kind |-> "transport_error"], [kind |-> "http_error"],
                     [kind |-> "bad_json"]}

Ok(json) == [kind |-> "ok", json |-> json]

NoUpstream == [kind |-> "not_called"]

PlayerIds == {"account.p1", "account.p2"}

Player(id) == [id |-> id, attributes |-> [name |-> "name"]]

\* a player record without its attributes
BarePlayer(id) == [id |-> id]

\* a player record without its id
NamedPlayer == [attributes |-> [name |-> "name"]]

\* a Python list where the slot may also hold None
PyList(items) == [kind |-> "list", items |-> items]

SearchBodies ==
    {[data |-> PyList(<<>>)], [errors |-> "not found"],
     [data |-> PyList(<<NamedPlayer>>)]}
    \cup {[data |-> PyList(<<Player(id)>>)] : id \in PlayerIds}
    \cup {[data |-> PyList(<<BarePlayer(id)>>)] : id \in PlayerIds}

SearchOutcomes == UpstreamFailures \cup {Ok(b) : b \in SearchBodies}

\* data.get("data") is truthy
HasData(json) == "data" \in DOMAIN json /\ Len(json.data.items) > 0

\* PUBGAPIService.search_player
search_player_api(out) ==
    IF out.kind # "ok" THEN NoneVal
    ELSE IF HasData(out.json) THEN out.json.data.items[1]
    ELSE NoneVal

Participant(id, place) ==
    [type |-> "participant",
     attributes |-> [stats |-> [playerId |-> id, winPlace |-> place]]]

Roster == [type |-> "roster"]

MaxPlace == 2

Items == {Roster} \cup {Participant("account.p1", 1)}
         \cup {Participant("account.p2", place) : place \in 1..MaxPlace}

MaxIncluded == 3

IncludedSeqs == UNION {[1..n -> Items] : n \in 0..MaxIncluded}

MatchJson(included, mode) ==
    [kind |-> "match",
     data |-> [attributes |-> [gameMode |-> mode]],
     included |-> included]

\* a body without the "included" list
NoIncluded == [kind |-> "match", data |-> [attributes |-> [gameMode |-> <<>>]]]

MatchBodies ==
    {EmptyDict, NoIncluded}
    \cup {MatchJson(inc, mode) : inc \in IncludedSeqs, mode \in GameModes}

MatchOutcomes == UpstreamFailures \cup {Ok(b) : b \in MatchBodies}

\* PUBGAPIService.get_match_details
get_match_details_api(out) == IF out.kind # "ok" THEN NoneVal ELSE out.json

StatsBodies == {EmptyDict, [data |-> [type |-> "playerSeason"]]}

StatsOutcomes == UpstreamFailures \cup {Ok(b) : b \in StatsBodies}

\* the body of an error answer taken for a result
ErrorBody == [errors |-> "upstream failure"]

get_player_stats_apiMutant(out) == IF out.kind # "ok" THEN ErrorBody ELSE out.json

\* PUBGAPIService.get_player_stats
get_player_stats_api(out) == IF out.kind # "ok" THEN NoneVal ELSE out.json

WeaponStatsBodies == {EmptyDict, [data |-> [type |-> "weaponMasterySummary"]]}

WeaponStatsOutcomes == UpstreamFailures \cup {Ok(b) : b \in WeaponStatsBodies}

\* PUBGAPIService.get_weapon_stats
get_weapon_stats_api(out) == IF out.kind # "ok" THEN NoneVal ELSE out.json

MatchRef(k) == [type |-> "match", id |-> k]

\* an entry of the match list without its id
BareMatchRef == [type |-> "match"]

RECURSIVE MatchList(_)
MatchList(n) == IF n = 0 THEN <<>> ELSE Append(MatchList(n - 1), MatchRef(n))

MaxMatchList == 21

MatchLists ==
    {MatchList(n) : n \in {0, 1, 2, MaxMatchList}} \cup {<<BareMatchRef>>}

PlayerJson(matches) ==
    [data |-> [relationships |-> [matches |-> [data |-> matches]]]]

\* "data" holds a list, as in the answer to a search
ListShaped == [data |-> PyList(<<>>)]

MatchListBodies ==
    {EmptyDict, ListShaped} \cup {PlayerJson(ms) : ms \in MatchLists}

MatchListOutcomes == UpstreamFailures \cup {Ok(b) : b \in MatchListBodies}

RecentLimit == 20

\* s[:n]
Prefix(s, n) == SubSeq(s, 1, Min(n, Len(s)))

\* PUBGAPIService.get_recent_matches: the chain of .get and matches[:20];
\* .get on a list raises AttributeError, caught by the except clause
get_recent_matches_api(out) ==
    IF out.kind # "ok" THEN NoneVal
    ELSE LET data == Get(out.json, "data", EmptyDict)
         IN  IF Get(data, "kind", "dict") = "list" THEN NoneVal
             ELSE LET relationships == Get(data, "relationships", EmptyDict)
                      matches == Get(Get(relationships, "matches", EmptyDict),
                                     "data", <<>>)
                  IN  PyList(Prefix(matches, RecentLimit))

-----------------------------------------------------------------------------
(* Request handlers *)

HTTPException(status_code, detail) ==
    [type |-> "HTTPException", status_code |-> status_code, detail |-> detail]

KeyError == [type |-> "KeyError"]

TypeError == [type |-> "TypeError"]

Raise(exc) == [kind |-> "raise", exc |-> exc]

Return(value) == [kind |-> "return", value |-> value]

Detail(msg) == [msg |-> msg]

\* the detail of the HTTPException raised at a handler's except clause
WrappedDetail(msg, exc) == [msg |-> msg, cause |-> exc]

NoResponse == [status |-> 0]

NoException == [type |-> "none"]

\* the exception a handler's body ended with
Raised(outcome) == IF outcome.kind = "raise" THEN outcome.exc ELSE NoException

NoLookup == [fn |-> "none", value |-> NoneVal]

\* a call of the stats client and what it returned
Lookup(fn, value) == [fn |-> fn, value |-> value]

\* FastAPI: a returned value is a 200, an HTTPException its status code,
\* any other exception a 500
Respond(outcome) ==
    IF outcome.kind = "return"
    THEN [status |-> 200, body |-> outcome.value]
    ELSE IF outcome.exc.type = "HTTPException"
    THEN [status |-> outcome.exc.status_code,
          body |-> [detail |-> outcome.exc.detail]]
    ELSE [status |-> 500, body |-> [detail |-> Detail("Internal Server Error")]]

search_player_routeMutant(player_data, platform) ==
    IF IsNone(player_data) \/ "attributes" \notin DOMAIN player_data
    THEN Raise(TypeError)
    ELSE Return([player_id |-> player_data.id,
                 player_name |-> player_data.attributes.name,
                 platform |-> platform])

\* search_player after its await
search_player_route(player_data, platform) ==
    IF IsNone(player_data)
    THEN Raise(HTTPException(404, Detail("player_not_found")))
    ELSE IF "id" \notin DOMAIN player_data \/ "attributes" \notin DOMAIN player_data
    THEN Raise(KeyError)
    ELSE Return([player_id |-> player_data.id,
                 player_name |-> player_data.attributes.name,
                 platform |-> platform])

\* not match_details
Falsy(value) == value \in {NoneVal, EmptyDict, PyList(<<>>)}

get_player_stats_routeMutant(data) == Return(data)

\* get_player_stats after its await
get_player_stats_route(data) ==
    IF Falsy(data)
    THEN Raise(HTTPException(404, Detail("stats_not_found")))
    ELSE Return(data)

\* get_recent_matches after its await
get_recent_matches_route(matches) ==
    IF Falsy(matches)
    THEN Raise(HTTPException(404, Detail("matches_not_found")))
    ELSE Return([matches |-> matches.items])

\* templates.TemplateResponse(name, context): an HTML page, status 200
TemplateResponse(name, context) ==
    Return([template |-> name, context |-> context])

player_profile_exceptMutant(exc) ==
    TemplateResponse("error.html", [error |-> Detail("error_occurred")])

\* except Exception as e of player_profile
player_profile_except(exc) ==
    TemplateResponse("error.html", [error |-> WrappedDetail("error_occurred", exc)])

\* player_profile from the answer to the search to the next await
player_profile_search(player_data) ==
    IF Falsy(player_data)
    THEN TemplateResponse("error.html", [error |-> Detail("player_not_found")])
    ELSE IF "id" \notin DOMAIN player_data THEN Raise(KeyError)
    ELSE [kind |-> "continue", player_id |-> player_data.id]

ProfileLimit == 20

TrendLimit == 10

\* the list a handler's for loop runs over: recent_matches[:n], nothing
\* when recent_matches is None or empty
LoopItems(matches, n) ==
    IF Falsy(matches) THEN <<>> ELSE Prefix(matches.items, n)

CanIssueMutant(pending) == pending < ProfileLimit

\* a handler awaits each get_match_details before the next loop iteration
CanIssue(pending) == pending = 0

IsParticipant(item) == item.type = "participant"

Participants(details) == SelectSeq(details.included, IsParticipant)

\* some participant carries the player id
HasPlayer(participants, id) ==
    \E i \in DOMAIN participants : participants[i].attributes.stats.playerId = id

\* next(p for p in participants if ... == player_id)
FirstPlayer(participants, id) ==
    participants[CHOOSE i \in DOMAIN participants :
        /\ participants[i].attributes.stats.playerId = id
        /\ \A j \in 1..(i - 1) : participants[j].attributes.stats.playerId # id]

TeammatesMutant(participants, player_stats) ==
    LET SamePlace(p) == p.attributes.stats.winPlace = player_stats.winPlace
    IN  SelectSeq(participants, SamePlace)

\* the teammates list comprehension of analyze_match
Teammates(participants, player_stats) ==
    LET SamePlace(p) ==
            /\ p.attributes.stats.winPlace = player_stats.winPlace
            /\ p.attributes.stats.playerId # player_stats.playerId
    IN  SelectSeq(participants, SamePlace)

\* the try body of analyze_match, from the stats client's answer to the
\* construction of the AI service
analyze_match_body(details, id) ==
    IF Falsy(details)
    THEN Raise(HTTPException(404, Detail("match_not_found")))
    ELSE IF "data" \notin DOMAIN details \/ "included" \notin DOMAIN details
    THEN Raise(KeyError)
    ELSE IF Participants(details) = <<>>
    THEN Raise(HTTPException(404, Detail("participants_not_found")))
    ELSE IF ~HasPlayer(Participants(details), id)
    THEN Raise(HTTPException(404, Detail("player_not_in_match")))
    ELSE LET player_stats == FirstPlayer(Participants(details), id).attributes.stats
         IN  Return([player_stats |-> player_stats,
                     teammates |-> Teammates(Participants(details), player_stats),
                     match_info |-> details.data.attributes])

\* except Exception as e of analyze_match: HTTPException is an Exception
analyze_match_except(exc) ==
    HTTPException(500, WrappedDetail("analysis_failed", exc))

\* except Exception as e of get_trend_analysis
get_trend_analysis_except(exc) ==
    HTTPException(500, WrappedDetail("trend_analysis_failed", exc))

\* the dictionary get_trend_analysis appends for one match
MatchSummary(stats) ==
    [kills |-> Get(stats, "kills", 0),
     damage |-> Get(stats, "damageDealt", 0),
     rank |-> Get(stats, "winPlace", 100),
     survival_time |-> Get(stats, "timeSurvived", 0),
     dbnos |-> Get(stats, "dBNOs", 0),
     revives |-> Get(stats, "revives", 0),
     assists |-> Get(stats, "assists", 0),
     headshots |-> Get(stats, "headshotKills", 0)]

\* one iteration of the loop of get_trend_analysis after its await: the
\* list matches_data becomes, or the exception raised
trend_loop_body(details, id, data) ==
    IF Falsy(details) THEN Return(data)
    ELSE IF "included" \notin DOMAIN details THEN Raise(KeyError)
    ELSE IF ~HasPlayer(Participants(details), id) THEN Return(data)
    ELSE Return(Append(data,
             MatchSummary(FirstPlayer(Participants(details), id).attributes.stats)))

-----------------------------------------------------------------------------
(* AIAnalysisService *)

NoService == [kind |-> "unconstructed"]

\* the test of the first branch of __init__
GeminiSelected(gemini_key, available) == KeySet(gemini_key) /\ available

\* AIAnalysisService.__init__: the instance's fields
Construct(gemini_key, openai_key, available, importable) ==
    IF GeminiSelected(gemini_key, available)
    THEN [kind |-> "service", use_gemini |-> TRUE, api_key |-> gemini_key,
          backend |-> "model"]
    ELSE IF KeySet(openai_key)
    THEN IF importable
         THEN [kind |-> "service", use_gemini |-> FALSE, api_key |-> openai_key,
               backend |-> "client"]
         ELSE [kind |-> "service", use_gemini |-> FALSE, api_key |-> NoneStr,
               backend |-> "none"]
    ELSE [kind |-> "service", use_gemini |-> FALSE, api_key |-> NoneStr,
          backend |-> "none"]

\* not self.api_key
NoKey(service) == ~KeySet(service.api_key)

\* the strings and values an analysis call can return
NotConfiguredMsg == [kind |-> "text", text |-> "api_key_not_configured"]

QuotaFallbackMsg == [kind |-> "text", text |-> "daily_quota_exceeded"]

Generated(provider) == [kind |-> "generated", by |-> provider]

ErrorText(prefix, msg) == [kind |-> "error_text", prefix |-> prefix, msg |-> msg]

\* exception messages: str(e) of a provider failure
Msg429 == <<"4","2","9"," ","R","e","s","o","u","r","c","e">>

MsgQuota == <<"Q","u","o","t","a"," ","e","x","c","e","e","d","e","d">>

MsgTimeout == <<"t","i","m","e","d"," ","o","u","t">>

MsgNoneType == <<"N","o","n","e","T","y","p","e">>

ErrorMsgs == {Msg429, MsgQuota, MsgTimeout}

NoError == <<>>

\* the quota test of the second except clause of _call_gemini_api
HasQuotaMarker(msg) ==
    \/ Contains(<<"4","2","9">>, msg)
    \/ Contains(<<"q","u","o","t","a">>, Lower(msg))

\* _create_analysis_prompt raises: match["game_mode"].lower() on None
PromptRaises(mode) == mode = NullMode

\* no probe within the current analysis call
NotProbed == "none"

\* remote calls made so far within the current analysis call
ResetCounters ==
    /\ n_gemini' = 0
    /\ n_probe' = 0
    /\ probe_status' = NotProbed
    /\ n_ollama' = 0
    /\ n_openai' = 0

KeepCounters == UNCHANGED <<n_gemini, n_probe, n_ollama, n_openai, probe_status>>

MatchNoKeyResultMutant == NoneVal

\* what analyze_match_performance returns without an api key
MatchNoKeyResult == NotConfiguredMsg

\* what analyze_player_trends returns without an api key or without matches
TrendsEarlyResult == NoneVal

ProviderCallMutant(service) ==
    IF KeySet(service.api_key) THEN "gemini" ELSE "openai"

\* where analyze_* goes once the prompt is built
ProviderCall(service) == IF service.use_gemini THEN "gemini" ELSE "openai"

\* analyze_match_performance up to its first await
AnalyzeMatchPerformance ==
    /\ lpc = "entry"
    /\ method = "analyze_match_performance"
    /\ IF NoKey(ai)
       THEN result' = MatchNoKeyResult /\ lpc' = "returned"
       ELSE IF PromptRaises(game_mode)
       THEN result' = ErrorText("analysis_error", MsgNoneType) /\ lpc' = "returned"
       ELSE result' = NoneVal /\ lpc' = ProviderCall(ai)
    /\ UNCHANGED <<ai, method, game_mode, matches_data, error_msg, calls>>
    /\ KeepCounters
    /\ UNCHANGED <<envVars, conVars, promptVars, reqVars, wpnVars, aggVars>>

\* analyze_player_trends up to its first await
AnalyzePlayerTrends ==
    /\ lpc = "entry"
    /\ method = "analyze_player_trends"
    /\ IF NoKey(ai) \/ matches_data = <<>>
       THEN /\ result' = TrendsEarlyResult
            /\ lpc' = "returned"
            /\ UNCHANGED trend_data
       ELSE /\ trend_data' = aggregate_match_data(matches_data)
            /\ result' = NoneVal
            /\ lpc' = ProviderCall(ai)
    /\ UNCHANGED <<ai, method, game_mode, matches_data, error_msg, calls>>
    /\ KeepCounters
    /\ UNCHANGED <<envVars, conVars, promptVars, reqVars, wpnVars, apc>>

AfterGeminiFailure == "probe"

AfterFallbackFailureMutant == "gemini"

\* the inner except of _call_gemini_api passes and the function falls off its end
AfterFallbackFailure == "fall_off"

\* _call_gemini_api: self.model.generate_content in the executor
CallGemini ==
    /\ lpc = "gemini"
    /\ n_gemini' = n_gemini + 1
    /\ \/ /\ result' = Generated("gemini")
          /\ lpc' = "returned"
          /\ UNCHANGED error_msg
       \/ \E e \in ErrorMsgs :
             /\ error_msg' = e
             /\ lpc' = AfterGeminiFailure
             /\ UNCHANGED result
    /\ UNCHANGED <<ai, method, game_mode, matches_data, calls,
                   n_probe, n_ollama, n_openai, probe_status>>
    /\ UNCHANGED <<envVars, conVars, promptVars, reqVars, wpnVars, aggVars>>

ProbeOutcomes == {"exception", "status_200", "status_other"}

ProbeSucceededMutant(out) == out # "exception"

\* if test_response.status_code == 200
ProbeSucceeded(out) == out = "status_200"

\* _call_gemini_api: GET /api/tags on the local provider
ProbeOllama ==
    /\ lpc = "probe"
    /\ n_probe' = n_probe + 1
    /\ \E out \in ProbeOutcomes :
          /\ probe_status' = out
          /\ lpc' = IF ProbeSucceeded(out) THEN "ollama" ELSE AfterFallbackFailure
    /\ UNCHANGED <<ai, method, game_mode, matches_data, error_msg, result, calls,
                   n_gemini, n_ollama, n_openai>>
    /\ UNCHANGED <<envVars, conVars, promptVars, reqVars, wpnVars, aggVars>>

OllamaOutcomes == {"exception", "status_other", "bad_json", "empty", "text"}

\* _call_ollama_api returns the text or raises
OllamaReturns(out) == out = "text"

\* _call_ollama_api, awaited inside the inner try of _call_gemini_api
CallOllama ==
    /\ lpc = "ollama"
    /\ n_ollama' = n_ollama + 1
    /\ \E out \in OllamaOutcomes :
          IF OllamaReturns(out)
          THEN result' = Generated("ollama") /\ lpc' = "returned"
          ELSE UNCHANGED result /\ lpc' = AfterFallbackFailure
    /\ UNCHANGED <<ai, method, game_mode, matches_data, error_msg, calls,
                   n_gemini, n_probe, n_openai, probe_status>>
    /\ UNCHANGED <<envVars, conVars, promptVars, reqVars, wpnVars, aggVars>>

GeminiFallOffValueMutant(msg) == ErrorText("gemini_call_failed", msg)

\* what _call_gemini_api returns when the first except clause runs to its end:
\* the second except clause guards the try body only, so it never runs
GeminiFallOffValue(msg) == NoneVal

\* _call_gemini_api: the end of the function body
GeminiFallOff ==
    /\ lpc = "fall_off"
    /\ result' = GeminiFallOffValue(error_msg)
    /\ lpc' = "returned"
    /\ UNCHANGED <<ai, method, game_mode, matches_data, error_msg, calls>>
    /\ KeepCounters
    /\ UNCHANGED <<envVars, conVars, promptVars, reqVars, wpnVars, aggVars>>

\* _call_openai_api
CallOpenAI ==
    /\ lpc = "openai"
    /\ n_openai' = n_openai + 1
    /\ \/ result' = Generated("openai")
       \/ \E e \in ErrorMsgs : result' = ErrorText("openai_call_failed", e)
    /\ lpc' = "returned"
    /\ UNCHANGED <<ai, method, game_mode, matches_data, error_msg, calls,
                   n_gemini, n_probe, n_ollama, probe_status>>
    /\ UNCHANGED <<envVars, conVars, promptVars, reqVars, wpnVars, aggVars>>

\* a caller starts an analysis call on the instance
StartCall(m) ==
    /\ method' = m
    /\ lpc' = "entry"
    /\ result' = NoneVal
    /\ error_msg' = NoError
    /\ calls' = calls + 1
    /\ ResetCounters

LLMStep ==
    \/ AnalyzeMatchPerformance
    \/ AnalyzePlayerTrends
    \/ CallGemini
    \/ ProbeOllama
    \/ CallOllama
    \/ GeminiFallOff
    \/ CallOpenAI

InitLLM ==
    /\ ai = NoService
    /\ method = "none"
    /\ lpc = "unconstructed"
    /\ game_mode = SquadFpp
    /\ error_msg = NoError
    /\ result = NoneVal
    /\ n_gemini = 0
    /\ n_probe = 0
    /\ n_ollama = 0
    /\ n_openai = 0
    /\ probe_status = NotProbed
    /\ calls = 0

-----------------------------------------------------------------------------
(* AIAnalysisService: the analysis data and the prompt builder *)

\* teammate.get("attributes", {}).get("stats", {})
StatsOf(participant) ==
    Get(Get(participant, "attributes", EmptyDict), "stats", EmptyDict)

\* one entry of data["teammates"]
PreparedTeammate(teammate) ==
    [kills |-> Get(StatsOf(teammate), "kills", 0),
     damage |-> Get(StatsOf(teammate), "damageDealt", 0),
     survival_time |->
         RatDiv(Rat(Get(StatsOf(teammate), "timeSurvived", 0)), Rat(60)),
     headshots |-> Get(StatsOf(teammate), "headshotKills", 0),
     dbnos |-> Get(StatsOf(teammate), "dBNOs", 0),
     revives |-> Get(StatsOf(teammate), "revives", 0),
     assists |-> Get(StatsOf(teammate), "assists", 0)]

\* _prepare_analysis_data, without the weapon entries
prepare_analysis_data(player_stats, teammates_stats, match_info) ==
    [player |->
        [kills |-> Get(player_stats, "kills", 0),
         damage |-> Get(player_stats, "damageDealt", 0),
         survival_time |->
             RatDiv(Rat(Get(player_stats, "timeSurvived", 0)), Rat(60)),
         headshots |-> Get(player_stats, "headshotKills", 0),
         rank |-> Get(player_stats, "winPlace", 0),
         dbnos |-> Get(player_stats, "dBNOs", 0),
         revives |-> Get(player_stats, "revives", 0),
         assists |-> Get(player_stats, "assists", 0)],
     teammates |->
        [i \in DOMAIN teammates_stats |-> PreparedTeammate(teammates_stats[i])],
     match |-> [game_mode |-> Get(match_info, "gameMode", <<>>)]]

Solo == <<"s", "o", "l", "o">>

Duo == <<"d", "u", "o">>

Fpp == <<"f", "p", "p">>

IsSoloMutant(mode) == Contains(Solo, mode)

\* is_solo
IsSolo(mode) == Contains(Solo, Lower(mode))

\* is_duo
IsDuo(mode) == Contains(Duo, Lower(mode))

\* is_fpp
IsFpp(mode) == Contains(Fpp, Lower(mode))

\* which text mode_context gets
ModeSection(mode) ==
    IF IsSolo(mode) THEN "solo" ELSE IF IsDuo(mode) THEN "duo" ELSE "squad"

\* which text perspective_context gets
PerspectiveSection(mode) == IF IsFpp(mode) THEN "fpp" ELSE "tpp"

\* which text _get_mode_specific_weapon_recommendations returns
mode_specific_weapon_recommendations(mode) ==
    LET mode_lower == Lower(mode)
    IN  IF Contains(Solo, mode_lower) THEN "solo"
        ELSE IF Contains(Duo, mode_lower) THEN "duo" ELSE "squad"

\* max(player["survival_time"] / 60, 1)
SurvivalDenominator(player) ==
    RatMax(RatDiv(player.survival_time, Rat(60)), Rat(1))

\* max(player["kills"], 1)
KillsDenominator(player) == Max(player.kills, 1)

RECURSIVE SumKills(_)
SumKills(mates) ==
    IF Len(mates) = 0 THEN 0
    ELSE mates[1].kills + SumKills(Tail(mates))

team_total_kills(player, mates) ==
    IF Len(mates) > 0 THEN SumKills(mates) + player.kills ELSE player.kills

ConversionDenominatorMutant(player) == player.dbnos

\* max(player["dbnos"], 1)
ConversionDenominator(player) == Max(player.dbnos, 1)

kill_efficiency(player) ==
    IF RatLt(Rat(0), player.survival_time)
    THEN Quotient(Rat(player.kills), SurvivalDenominator(player))
    ELSE Rat(0)

\* also teammate_damage_per_kill
damage_per_kill(player) ==
    IF player.kills > 0
    THEN Quotient(Rat(player.damage), Rat(KillsDenominator(player)))
    ELSE Rat(player.damage)

\* also teammate_headshot_rate
player_headshot_rate(player) ==
    IF player.kills > 0
    THEN Percent(Quotient(Rat(player.headshots), Rat(KillsDenominator(player))))
    ELSE Rat(0)

kill_contribution(player, mates) ==
    IF team_total_kills(player, mates) > 0
    THEN Percent(Quotient(Rat(player.kills),
                          Rat(Max(team_total_kills(player, mates), 1))))
    ELSE Rat(100)

\* the conversion of knockdowns into kills written into the prompt
conversion_rate(player) ==
    Percent(Quotient(Rat(player.kills), Rat(ConversionDenominator(player))))

\* the numbers _create_analysis_prompt derives, in the order it computes them
DerivedMetrics(data) ==
    <<kill_efficiency(data.player), damage_per_kill(data.player),
      player_headshot_rate(data.player),
      kill_contribution(data.player, data.teammates),
      conversion_rate(data.player)>>
    \o [i \in DOMAIN data.teammates |-> damage_per_kill(data.teammates[i])]
    \o [i \in DOMAIN data.teammates |-> player_headshot_rate(data.teammates[i])]

AttributeError == [type |-> "AttributeError"]

\* _create_analysis_prompt: the sections chosen and the numbers written, or
\* the exception raised
create_analysis_prompt(data, mastery) ==
    IF PromptRaises(data.match.game_mode) THEN Raise(AttributeError)
    ELSE IF \E i \in DOMAIN DerivedMetrics(data) : DerivedMetrics(data)[i] = NaR
    THEN Raise(ZeroDivisionError)
    ELSE Return([mode_context |-> ModeSection(data.match.game_mode),
                 perspective_context |-> PerspectiveSection(data.match.game_mode),
                 metrics |-> DerivedMetrics(data),
                 mode_recommendations |->
                     IF Len(mastery) = 0 THEN "generic"
                     ELSE mode_specific_weapon_recommendations(
                              data.match.game_mode)])

\* max(stats.get("kills", 1), 1)
ExtractDenominator(stats) == Max(Get(stats, "kills", 1), 1)

\* PUBGAPIService.extract_match_weapons_data
extract_match_weapons_data(details, id) ==
    LET included == Get(details, "included", <<>>)
        IsPlayer(item) ==
            /\ Get(item, "type", "") = "participant"
            /\ Get(StatsOf(item), "playerId", NoneStr) = id
        found == SelectSeq(included, IsPlayer)
    IN  IF Len(found) = 0 THEN EmptyDict
        ELSE LET stats == StatsOf(found[1])
                 rate == Percent(Quotient(Rat(Get(stats, "headshotKills", 0)),
                                          Rat(ExtractDenominator(stats))))
             IN  IF rate = NaR THEN EmptyDict
                 ELSE [headshot_kills |-> Get(stats, "headshotKills", 0),
                       total_kills |-> Get(stats, "kills", 0),
                       damage_dealt |-> Get(stats, "damageDealt", 0),
                       headshot_rate |-> rate]

-----------------------------------------------------------------------------
(* The service called directly, as a library *)

MaxCalls == 2

DirectConstruct ==
    /\ lpc = "unconstructed"
    /\ ai' = Construct(GEMINI_API_KEY, OPENAI_API_KEY, GEMINI_AVAILABLE,
                       openai_importable)
    /\ lpc' = "constructed"
    /\ UNCHANGED <<method, game_mode, matches_data, error_msg, result, calls>>
    /\ KeepCounters
    /\ UNCHANGED <<envVars, conVars, promptVars, reqVars, wpnVars, aggVars>>

MatchRecordA ==
    [kills |-> 1, damage |-> 100, rank |-> 5, survival_time |-> 600,
     dbnos |-> 2, revives |-> 1, assists |-> 1, headshots |-> 1]

\* a record without kills, rank, dbnos and revives
MatchRecordB == [damage |-> 50, assists |-> 2]

MatchRecords == {MatchRecordA, MatchRecordB}

DirectInputs == {<<>>, <<MatchRecordA>>, <<MatchRecordB, MatchRecordA>>}

DirectCallMatch ==
    /\ lpc \in {"constructed", "returned"}
    /\ calls < MaxCalls
    /\ \E mode \in GameModes : game_mode' = mode
    /\ StartCall("analyze_match_performance")
    /\ UNCHANGED <<ai, matches_data>>
    /\ UNCHANGED <<envVars, conVars, promptVars, reqVars, wpnVars, aggVars>>

DirectCallTrends ==
    /\ lpc \in {"constructed", "returned"}
    /\ calls < MaxCalls
    /\ \E data \in DirectInputs : matches_data' = data
    /\ StartCall("analyze_player_trends")
    /\ UNCHANGED <<ai, game_mode>>
    /\ UNCHANGED <<envVars, conVars, promptVars, reqVars, wpnVars, aggVars>>

-----------------------------------------------------------------------------
(* Serving one HTTP request *)

InitReq ==
    /\ handler = "idle"
    /\ pc = "idle"
    /\ player_id = NoneStr
    /\ upstream = NoUpstream
    /\ match_details = NoneVal
    /\ teammates = <<>>
    /\ response = NoResponse
    /\ raised = NoException
    /\ lookup = NoLookup
    /\ stats_data = NoneVal
    /\ recent_matches = NoneVal
    /\ issued = 0
    /\ outstanding = 0
    /\ n_detailed = 0

\* POST /api/player/search arrives
ReceiveSearch ==
    /\ handler = "idle"
    /\ handler' = "search_player"
    /\ pc' = "search_player"
    /\ UNCHANGED <<player_id, upstream, match_details, teammates, response>>
    /\ UNCHANGED <<raised, lookup, stats_data, loopVars>>
    /\ UNCHANGED <<envVars, conVars, promptVars, llmVars, matches_data, wpnVars, aggVars>>

\* the stats client answers and the search handler finishes
SearchPlayerDone ==
    /\ handler = "search_player"
    /\ pc = "search_player"
    /\ \E out \in SearchOutcomes :
          LET outcome == search_player_route(search_player_api(out), "steam")
          IN  /\ upstream' = out
              /\ lookup' = Lookup("search_player", search_player_api(out))
              /\ raised' = Raised(outcome)
              /\ response' = Respond(outcome)
    /\ pc' = "done"
    /\ UNCHANGED <<handler, player_id, match_details, teammates>>
    /\ UNCHANGED <<stats_data, loopVars>>
    /\ UNCHANGED <<envVars, conVars, promptVars, llmVars, matches_data, wpnVars, aggVars>>

\* GET or POST /api/match/{id}/analyze arrives
ReceiveAnalyzeMatch ==
    /\ handler = "idle"
    /\ handler' = "analyze_match"
    /\ \E id \in PlayerIds : player_id' = id
    /\ pc' = "get_match_details"
    /\ UNCHANGED <<upstream, match_details, teammates, response>>
    /\ UNCHANGED <<raised, lookup, stats_data, loopVars>>
    /\ UNCHANGED <<envVars, conVars, promptVars, llmVars, matches_data, wpnVars, aggVars>>

\* the stats client answers; analyze_match runs to its response or to the
\* await of analyze_match_performance
AnalyzeMatchFetched ==
    /\ handler = "analyze_match"
    /\ pc = "get_match_details"
    /\ \E out \in MatchOutcomes :
          LET details == get_match_details_api(out)
              body == analyze_match_body(details, player_id)
          IN  /\ upstream' = out
              /\ lookup' = Lookup("get_match_details", details)
              /\ raised' = Raised(body)
              /\ match_details' = details
              /\ IF body.kind = "raise"
                 THEN /\ response' = Respond(Raise(analyze_match_except(body.exc)))
                      /\ pc' = "done"
                      /\ UNCHANGED <<teammates, llmVars>>
                 ELSE /\ teammates' = body.value.teammates
                      /\ ai' = Construct(GEMINI_API_KEY, OPENAI_API_KEY,
                                         GEMINI_AVAILABLE, openai_importable)
                      /\ game_mode' = Get(body.value.match_info, "gameMode", <<>>)
                      /\ StartCall("analyze_match_performance")
                      /\ pc' = "analyze_match_performance"
                      /\ UNCHANGED response
    /\ UNCHANGED <<handler, player_id, matches_data>>
    /\ UNCHANGED <<stats_data, loopVars>>
    /\ UNCHANGED <<envVars, conVars, promptVars, wpnVars, aggVars>>

\* analyze_match_performance has returned; analyze_match returns its dict
AnalyzeMatchDone ==
    /\ handler = "analyze_match"
    /\ pc = "analyze_match_performance"
    /\ lpc = "returned"
    /\ response' = Respond(Return(
           [analysis |-> result,
            player_stats |->
                FirstPlayer(Participants(match_details), player_id).attributes.stats,
            teammates_count |-> Len(teammates)]))
    /\ pc' = "done"
    /\ UNCHANGED <<handler, player_id, upstream, match_details, teammates>>
    /\ UNCHANGED <<raised, lookup, stats_data, loopVars>>
    /\ UNCHANGED <<envVars, conVars, promptVars, llmVars, matches_data, wpnVars, aggVars>>

\* GET /api/player/{id}/stats arrives
ReceivePlayerStats ==
    /\ handler = "idle"
    /\ handler' = "get_player_stats"
    /\ \E id \in PlayerIds : player_id' = id
    /\ pc' = "get_player_stats"
    /\ UNCHANGED <<upstream, match_details, teammates, response>>
    /\ UNCHANGED <<raised, lookup, stats_data, loopVars>>
    /\ UNCHANGED <<envVars, conVars, promptVars, llmVars, matches_data, wpnVars, aggVars>>

\* the stats client answers and get_player_stats finishes
PlayerStatsDone ==
    /\ handler = "get_player_stats"
    /\ pc = "get_player_stats"
    /\ \E out \in StatsOutcomes :
          LET data == get_player_stats_api(out)
              outcome == get_player_stats_route(data)
          IN  /\ upstream' = out
              /\ lookup' = Lookup("get_player_stats", data)
              /\ stats_data' = data
              /\ raised' = Raised(outcome)
              /\ response' = Respond(outcome)
    /\ pc' = "done"
    /\ UNCHANGED <<handler, player_id, match_details, teammates, loopVars>>
    /\ UNCHANGED <<envVars, conVars, promptVars, llmVars, matches_data, wpnVars, aggVars>>

\* GET /api/player/{id}/matches arrives
ReceiveRecentMatches ==
    /\ handler = "idle"
    /\ handler' = "get_recent_matches"
    /\ \E id \in PlayerIds : player_id' = id
    /\ pc' = "get_recent_matches"
    /\ UNCHANGED <<upstream, match_details, teammates, response>>
    /\ UNCHANGED <<raised, lookup, stats_data, loopVars>>
    /\ UNCHANGED <<envVars, conVars, promptVars, llmVars, matches_data, wpnVars, aggVars>>

\* the stats client answers and get_recent_matches finishes
RecentMatchesDone ==
    /\ handler = "get_recent_matches"
    /\ pc = "get_recent_matches"
    /\ \E out \in MatchListOutcomes :
          LET matches == get_recent_matches_api(out)
              outcome == get_recent_matches_route(matches)
          IN  /\ upstream' = out
              /\ lookup' = Lookup("get_recent_matches", matches)
              /\ recent_matches' = matches
              /\ raised' = Raised(outcome)
              /\ response' = Respond(outcome)
    /\ pc' = "done"
    /\ UNCHANGED <<handler, player_id, match_details, teammates, stats_data>>
    /\ UNCHANGED <<issued, outstanding, n_detailed>>
    /\ UNCHANGED <<envVars, conVars, promptVars, llmVars, matches_data, wpnVars, aggVars>>

\* GET /player/{name} arrives
ReceiveProfile ==
    /\ handler = "idle"
    /\ handler' = "player_profile"
    /\ pc' = "search_player"
    /\ UNCHANGED <<player_id, upstream, match_details, teammates, response>>
    /\ UNCHANGED <<raised, lookup, stats_data, loopVars>>
    /\ UNCHANGED <<envVars, conVars, promptVars, llmVars, matches_data, wpnVars, aggVars>>

\* the search answers; player_profile renders the error page or goes on to
\* the await of get_player_stats
ProfileSearched ==
    /\ handler = "player_profile"
    /\ pc = "search_player"
    /\ \E out \in SearchOutcomes :
          LET player_data == search_player_api(out)
              step == player_profile_search(player_data)
          IN  /\ upstream' = out
              /\ lookup' = Lookup("search_player", player_data)
              /\ raised' = Raised(step)
              /\ IF step.kind = "continue"
                 THEN /\ player_id' = step.player_id
                      /\ pc' = "get_player_stats"
                      /\ UNCHANGED response
                 ELSE /\ response' = Respond(IF step.kind = "raise"
                                             THEN player_profile_except(step.exc)
                                             ELSE step)
                      /\ pc' = "done"
                      /\ UNCHANGED player_id
    /\ UNCHANGED <<handler, match_details, teammates, stats_data, loopVars>>
    /\ UNCHANGED <<envVars, conVars, promptVars, llmVars, matches_data, wpnVars, aggVars>>

\* get_player_stats answers; player_profile awaits get_recent_matches
ProfileStatsFetched ==
    /\ handler = "player_profile"
    /\ pc = "get_player_stats"
    /\ \E out \in StatsOutcomes :
          /\ upstream' = out
          /\ lookup' = Lookup("get_player_stats", get_player_stats_api(out))
          /\ stats_data' = get_player_stats_api(out)
    /\ pc' = "get_recent_matches"
    /\ UNCHANGED <<handler, player_id, match_details, teammates, response>>
    /\ UNCHANGED <<raised, loopVars>>
    /\ UNCHANGED <<envVars, conVars, promptVars, llmVars, matches_data, wpnVars, aggVars>>

\* get_recent_matches answers; player_profile enters its loop
ProfileMatchesFetched ==
    /\ handler = "player_profile"
    /\ pc = "get_recent_matches"
    /\ \E out \in MatchListOutcomes :
          /\ upstream' = out
          /\ lookup' = Lookup("get_recent_matches", get_recent_matches_api(out))
          /\ recent_matches' = get_recent_matches_api(out)
    /\ pc' = "match_details_loop"
    /\ UNCHANGED <<handler, player_id, match_details, teammates, response>>
    /\ UNCHANGED <<raised, stats_data, issued, outstanding, n_detailed>>
    /\ UNCHANGED <<envVars, conVars, promptVars, llmVars, matches_data, wpnVars, aggVars>>

\* the loop of player_profile reads match["id"] and sends the next
\* get_match_details
ProfileIssueFetch ==
    /\ handler = "player_profile"
    /\ pc = "match_details_loop"
    /\ CanIssue(outstanding)
    /\ issued < Len(LoopItems(recent_matches, ProfileLimit))
    /\ IF "id" \in DOMAIN LoopItems(recent_matches, ProfileLimit)[issued + 1]
       THEN /\ issued' = issued + 1
            /\ outstanding' = outstanding + 1
            /\ UNCHANGED <<pc, raised, response>>
       ELSE /\ raised' = KeyError
            /\ response' = Respond(player_profile_except(KeyError))
            /\ pc' = "done"
            /\ UNCHANGED <<issued, outstanding>>
    /\ UNCHANGED <<handler, player_id, upstream, match_details, teammates>>
    /\ UNCHANGED <<lookup, stats_data, recent_matches, n_detailed>>
    /\ UNCHANGED <<envVars, conVars, promptVars, llmVars, matches_data, wpnVars, aggVars>>

DetailOutcomes == {[kind |-> "transport_error"], Ok(EmptyDict), Ok(NoIncluded)}

\* a get_match_details of the loop answers; a truthy answer is appended to
\* detailed_matches, of which the model keeps the length
ProfileFetchReturns ==
    /\ handler = "player_profile"
    /\ pc = "match_details_loop"
    /\ outstanding > 0
    /\ \E out \in DetailOutcomes :
          LET details == get_match_details_api(out)
          IN  /\ upstream' = out
              /\ lookup' = Lookup("get_match_details", details)
              /\ match_details' = details
              /\ n_detailed' = IF Falsy(details) THEN n_detailed ELSE n_detailed + 1
    /\ outstanding' = outstanding - 1
    /\ UNCHANGED <<handler, pc, player_id, teammates, response>>
    /\ UNCHANGED <<raised, stats_data, recent_matches, issued>>
    /\ UNCHANGED <<envVars, conVars, promptVars, llmVars, matches_data, wpnVars, aggVars>>

\* the loop is over; player_profile renders the profile page
ProfileRender ==
    /\ handler = "player_profile"
    /\ pc = "match_details_loop"
    /\ issued = Len(LoopItems(recent_matches, ProfileLimit))
    /\ outstanding = 0
    /\ response' = Respond(TemplateResponse("player_profile.html",
           [player_id |-> player_id, stats |-> stats_data,
            matches |-> recent_matches, detailed_matches |-> n_detailed]))
    /\ pc' = "done"
    /\ UNCHANGED <<handler, player_id, upstream, match_details, teammates>>
    /\ UNCHANGED <<raised, lookup, stats_data, loopVars>>
    /\ UNCHANGED <<envVars, conVars, promptVars, llmVars, matches_data, wpnVars, aggVars>>

\* GET /api/player/{id}/trend-analysis arrives
ReceiveTrend ==
    /\ handler = "idle"
    /\ handler' = "get_trend_analysis"
    /\ \E id \in PlayerIds : player_id' = id
    /\ pc' = "get_recent_matches"
    /\ UNCHANGED <<upstream, match_details, teammates, response>>
    /\ UNCHANGED <<raised, lookup, stats_data, loopVars>>
    /\ UNCHANGED <<envVars, conVars, promptVars, llmVars, matches_data, wpnVars, aggVars>>

\* get_recent_matches answers; get_trend_analysis raises its 404 inside the
\* try block or enters its loop
TrendMatchesFetched ==
    /\ handler = "get_trend_analysis"
    /\ pc = "get_recent_matches"
    /\ \E out \in MatchListOutcomes :
          LET matches == get_recent_matches_api(out)
              exc == HTTPException(404, Detail("matches_not_found"))
          IN  /\ upstream' = out
              /\ lookup' = Lookup("get_recent_matches", matches)
              /\ recent_matches' = matches
              /\ IF Falsy(matches)
                 THEN /\ raised' = exc
                      /\ response' = Respond(Raise(get_trend_analysis_except(exc)))
                      /\ pc' = "done"
                 ELSE /\ pc' = "trend_loop"
                      /\ UNCHANGED <<raised, response>>
    /\ UNCHANGED <<handler, player_id, match_details, teammates, stats_data>>
    /\ UNCHANGED <<issued, outstanding, n_detailed>>
    /\ UNCHANGED <<envVars, conVars, promptVars, llmVars, matches_data, wpnVars, aggVars>>

TrendDetailOutcomes ==
    {[kind |-> "transport_error"], Ok(EmptyDict), Ok(NoIncluded),
     Ok(MatchJson(<<Roster, Participant("account.p1", 1)>>, SquadFpp))}

\* one iteration of the loop of get_trend_analysis: match["id"], the await of
\* get_match_details and the search for the player among the participants
TrendFetch ==
    /\ handler = "get_trend_analysis"
    /\ pc = "trend_loop"
    /\ issued < Len(LoopItems(recent_matches, TrendLimit))
    /\ IF "id" \notin DOMAIN LoopItems(recent_matches, TrendLimit)[issued + 1]
       THEN /\ raised' = KeyError
            /\ response' = Respond(Raise(get_trend_analysis_except(KeyError)))
            /\ pc' = "done"
            /\ UNCHANGED <<upstream, lookup, match_details, matches_data, issued>>
       ELSE \E out \in TrendDetailOutcomes :
              LET details == get_match_details_api(out)
                  body == trend_loop_body(details, player_id, matches_data)
              IN  /\ upstream' = out
                  /\ lookup' = Lookup("get_match_details", details)
                  /\ match_details' = details
                  /\ raised' = Raised(body)
                  /\ IF body.kind = "raise"
                     THEN /\ response' =
                                Respond(Raise(get_trend_analysis_except(body.exc)))
                          /\ pc' = "done"
                          /\ UNCHANGED <<matches_data, issued>>
                     ELSE /\ matches_data' = body.value
                          /\ issued' = issued + 1
                          /\ UNCHANGED <<pc, response>>
    /\ UNCHANGED <<handler, player_id, teammates, stats_data>>
    /\ UNCHANGED <<recent_matches, outstanding, n_detailed>>
    /\ UNCHANGED <<envVars, conVars, promptVars, llmVars, wpnVars, aggVars>>

\* the loop is over; get_trend_analysis raises its second 404 inside the try
\* block, or constructs the AI service and awaits analyze_player_trends
TrendLoopDone ==
    /\ handler = "get_trend_analysis"
    /\ pc = "trend_loop"
    /\ issued = Len(LoopItems(recent_matches, TrendLimit))
    /\ IF matches_data = <<>>
       THEN LET exc == HTTPException(404, Detail("no_match_data"))
            IN  /\ raised' = exc
                /\ response' = Respond(Raise(get_trend_analysis_except(exc)))
                /\ pc' = "done"
                /\ UNCHANGED llmVars
       ELSE /\ ai' = Construct(GEMINI_API_KEY, OPENAI_API_KEY,
                               GEMINI_AVAILABLE, openai_importable)
            /\ StartCall("analyze_player_trends")
            /\ pc' = "analyze_player_trends"
            /\ UNCHANGED <<raised, response, game_mode>>
    /\ UNCHANGED <<handler, player_id, upstream, match_details, teammates>>
    /\ UNCHANGED <<lookup, stats_data, loopVars, matches_data>>
    /\ UNCHANGED <<envVars, conVars, promptVars, wpnVars, aggVars>>

\* analyze_player_trends has returned; get_trend_analysis returns its dict
TrendDone ==
    /\ handler = "get_trend_analysis"
    /\ pc = "analyze_player_trends"
    /\ lpc = "returned"
    /\ response' = Respond(Return(
           [player_id |-> player_id,
            matches_analyzed |-> Len(matches_data),
            trend_analysis |-> result]))
    /\ pc' = "done"
    /\ UNCHANGED <<handler, player_id, upstream, match_details, teammates>>
    /\ UNCHANGED <<raised, lookup, stats_data, loopVars>>
    /\ UNCHANGED <<envVars, conVars, promptVars, llmVars, matches_data, wpnVars, aggVars>>

-----------------------------------------------------------------------------
(* Analysis requests in flight at once.  The event loop runs one coroutine
   until its next await, so every action below is the code between two awaits
   of one request. *)

MaxRequests == 2

RequestIds == 1..MaxRequests

\* the locals of one analyze_* call: where it is, the message of the Gemini
\* failure, the key the Gemini call went out with, and the text to return
StartedCall ==
    [lpc |-> "entry", error_msg |-> NoError, used_key |-> NoneStr,
     result |-> NoneVal]

NoCall ==
    [lpc |-> "none", error_msg |-> NoError, used_key |-> NoneStr,
     result |-> NoneVal]

\* a request that has not arrived.  alone is the same call carried out on a
\* service object and a library configuration no other request has touched.
NoRequest ==
    [handler |-> "none", pc |-> "idle", game_mode |-> <<>>,
     matches_analyzed |-> 0, service |-> 0, call |-> NoCall, alone |-> NoCall,
     response |-> NoResponse]

\* what reaches the construction of the service: analyze_match with the mode
\* of the match, get_trend_analysis with its non-empty matches_data
AnalysisRequests ==
    {[handler |-> "analyze_match", game_mode |-> m, matches_analyzed |-> 0] :
        m \in GameModes}
    \cup {[handler |-> "get_trend_analysis", game_mode |-> <<>>,
           matches_analyzed |-> n] : n \in {1}}

NewInstanceMutant(objects) == 1

\* AIAnalysisService(): a new object each time
NewInstance(objects) == Len(objects) + 1

Outcome(kind, msg) == [kind |-> kind, msg |-> msg]

\* what the await the call stands at can come back with
CallOutcomes(at) ==
    IF at \in {"gemini", "openai"}
    THEN {Outcome("text", NoError)}
         \cup {Outcome("exception", e) : e \in ErrorMsgs}
    ELSE IF at = "probe" THEN {Outcome(o, NoError) : o \in ProbeOutcomes}
    ELSE IF at = "ollama" THEN {Outcome(o, NoError) : o \in OllamaOutcomes}
    ELSE {Outcome("none", NoError)}

Returned(call, text) == [call EXCEPT !.lpc = "returned", !.result = text]

\* one step of analyze_match_performance or analyze_player_trends on the given
\* service object, with the Gemini library configured with the given key
CallStep(req, service, configured, call, out) ==
    IF call.lpc = "entry"
    THEN IF req.handler = "analyze_match"
         THEN IF NoKey(service) THEN Returned(call, MatchNoKeyResult)
              ELSE IF PromptRaises(req.game_mode)
              THEN Returned(call, ErrorText("analysis_error", MsgNoneType))
              ELSE [call EXCEPT !.lpc = ProviderCall(service)]
         ELSE IF NoKey(service) \/ req.matches_analyzed = 0
              THEN Returned(call, TrendsEarlyResult)
              ELSE [call EXCEPT !.lpc = ProviderCall(service)]
    ELSE IF call.lpc = "gemini"
    THEN IF out.kind = "text"
         THEN [Returned(call, Generated("gemini")) EXCEPT !.used_key = configured]
         ELSE [call EXCEPT !.lpc = AfterGeminiFailure, !.error_msg = out.msg,
                           !.used_key = configured]
    ELSE IF call.lpc = "probe"
    THEN [call EXCEPT !.lpc = IF ProbeSucceeded(out.kind) THEN "ollama"
                              ELSE AfterFallbackFailure]
    ELSE IF call.lpc = "ollama"
    THEN IF OllamaReturns(out.kind) THEN Returned(call, Generated("ollama"))
         ELSE [call EXCEPT !.lpc = AfterFallbackFailure]
    ELSE IF call.lpc = "fall_off"
    THEN Returned(call, GeminiFallOffValue(call.error_msg))
    ELSE IF out.kind = "text" THEN Returned(call, Generated("openai"))
         ELSE Returned(call, ErrorText("openai_call_failed", out.msg))

\* the dict the handler returns
AnalysisResponse(req, text) ==
    IF req.handler = "analyze_match"
    THEN Respond(Return([analysis |-> text]))
    ELSE Respond(Return([matches_analyzed |-> req.matches_analyzed,
                         trend_analysis |-> text]))

\* the service object a request constructing on its own gets
OwnService ==
    Construct(GEMINI_API_KEY, OPENAI_API_KEY, GEMINI_AVAILABLE, openai_importable)

\* an analysis request has reached the line that constructs the service
ArriveAnalysis(r) ==
    /\ requests[r].pc = "idle"
    /\ \E a \in AnalysisRequests :
          requests' = [requests EXCEPT ![r] =
              [@ EXCEPT !.handler = a.handler, !.game_mode = a.game_mode,
                        !.matches_analyzed = a.matches_analyzed,
                        !.pc = "construct"]]
    /\ UNCHANGED <<instances, genai_api_key>>
    /\ UNCHANGED <<envVars, reqVars, llmVars, matches_data, wpnVars, aggVars,
                   promptVars>>

\* ai_service = AIAnalysisService(), where genai.configure stores the key in
\* the library, and the call of analyze_* up to its first statement
ConstructService(r) ==
    /\ requests[r].pc = "construct"
    /\ LET id == NewInstance(instances)
       IN  /\ instances' = IF id \in DOMAIN instances
                           THEN [instances EXCEPT ![id] = OwnService]
                           ELSE Append(instances, OwnService)
           /\ requests' = [requests EXCEPT ![r] =
                  [@ EXCEPT !.service = id, !.call = StartedCall,
                            !.alone = StartedCall, !.pc = "call"]]
    /\ genai_api_key' = IF GeminiSelected(GEMINI_API_KEY, GEMINI_AVAILABLE)
                        THEN GEMINI_API_KEY ELSE genai_api_key
    /\ UNCHANGED <<envVars, reqVars, llmVars, matches_data, wpnVars, aggVars,
                   promptVars>>

\* the call runs to its next await, or an await comes back
AdvanceCall(r) ==
    /\ requests[r].pc = "call"
    /\ requests[r].call.lpc # "returned"
    /\ \E out \in CallOutcomes(requests[r].call.lpc) :
          requests' = [requests EXCEPT ![r] =
              [@ EXCEPT !.call = CallStep(requests[r],
                                          instances[requests[r].service],
                                          genai_api_key, requests[r].call, out),
                        !.alone = CallStep(requests[r], OwnService,
                                           GEMINI_API_KEY, requests[r].alone,
                                           out)]]
    /\ UNCHANGED <<instances, genai_api_key>>
    /\ UNCHANGED <<envVars, reqVars, llmVars, matches_data, wpnVars, aggVars,
                   promptVars>>

\* the handler returns its dict
AnswerAnalysis(r) ==
    /\ requests[r].pc = "call"
    /\ requests[r].call.lpc = "returned"
    /\ requests' = [requests EXCEPT ![r] =
           [@ EXCEPT !.response = AnalysisResponse(requests[r],
                                                   requests[r].call.result),
                     !.pc = "done"]]
    /\ UNCHANGED <<instances, genai_api_key>>
    /\ UNCHANGED <<envVars, reqVars, llmVars, matches_data, wpnVars, aggVars,
                   promptVars>>

InitConVars ==
    /\ requests = [r \in RequestIds |-> NoRequest]
    /\ instances = <<>>
    /\ genai_api_key = NoneStr

-----------------------------------------------------------------------------
(* The weapon ranking and the aggregator applied to drawn inputs *)

InitWpn ==
    /\ weapon_stats = <<>>
    /\ weapon_mastery = <<>>
    /\ wpc = "idle"
    /\ best_weapons = <<>>
    /\ weak_weapons = <<>>
    /\ shown_best = <<>>
    /\ shown_weak = <<>>

InitAgg ==
    /\ apc = "idle"
    /\ trend_data = EmptyDict

\* nothing prepared, built or extracted
InitPromptVars ==
    /\ analysis_input = NoneVal
    /\ analysis_data = NoneVal
    /\ prompt = NoneVal
    /\ match_weapons = NoneVal

\* _generate_weapon_recommendations returns its generic text for an empty mapping
NoWeaponData(mastery) == mastery = <<>>

WeaponNames == <<"AKM", "M416", "Kar98k", "UMP45", "S12K", "Mini14">>

WeaponSummary(times_used, kills, damage, headshots) ==
    [TimesUsed |-> times_used, Kills |-> kills, DamageDealt |-> damage,
     HeadshotKills |-> headshots, LongestKill |-> 0]

\* counters of one weapon: three strong ones, two weak ones, one in between,
\* a well-scoring one used 9 times and a summary without its TimesUsed; no
\* score lies on a threshold, where float rounding would decide
WeaponCounters ==
    {WeaponSummary(20, 10, 3000, 4), WeaponSummary(10, 5, 1000, 0),
     WeaponSummary(20, 1, 100, 1),
     WeaponSummary(10, 0, 200, 0), WeaponSummary(10, 1, 100, 0),
     WeaponSummary(10, 2, 0, 0),
     WeaponSummary(9, 9, 900, 9), [Kills |-> 3, DamageDealt |-> 400]}

MaxWeapons == 4

\* the i-th summary of the list carries the i-th weapon name
Named(counters) ==
    [i \in DOMAIN counters |->
        [key \in DOMAIN counters[i] \cup {"WeaponName"} |->
            IF key = "WeaponName" THEN WeaponNames[i] ELSE counters[i][key]]]

WeaponInputs ==
    {Named(c) : c \in UNION {[1..n -> WeaponCounters] : n \in 0..MaxWeapons}}

\* _process_weapon_stats, called by _prepare_analysis_data
ProcessWeaponStats ==
    /\ wpc = "idle"
    /\ weapon_mastery' = process_weapon_stats(weapon_stats)
    /\ wpc' = "processed"
    /\ UNCHANGED <<weapon_stats, best_weapons, weak_weapons, shown_best, shown_weak>>
    /\ UNCHANGED <<envVars, conVars, promptVars, reqVars, llmVars, matches_data, aggVars>>

\* _generate_weapon_recommendations, called by _create_analysis_prompt.  The
\* guide texts it appends (_get_weapon_aim_guide, whose line 422 reads
\* "for smin [...]" for "for smg in [...]", and the helpers after it) only
\* build strings and are left out.
GenerateWeaponRecommendations ==
    /\ wpc = "processed"
    /\ IF NoWeaponData(weapon_mastery)
       THEN /\ wpc' = "generic"
            /\ UNCHANGED <<best_weapons, weak_weapons, shown_best, shown_weak>>
       ELSE LET ranked == RankLoop(weapon_mastery, 1, <<>>, <<>>)
                best == StableSort(ranked[1], "score_desc")
                weak == StableSort(ranked[2], "score_asc")
            IN  /\ best_weapons' = best
                /\ weak_weapons' = weak
                /\ shown_best' = BestShown(best)
                /\ shown_weak' = WeakShown(weak)
                /\ wpc' = "done"
    /\ UNCHANGED <<weapon_stats, weapon_mastery>>
    /\ UNCHANGED <<envVars, conVars, promptVars, reqVars, llmVars, matches_data, aggVars>>

MaxMatches == 12

MatchInputs == UNION {[1..n -> MatchRecords] : n \in 0..MaxMatches}

\* _aggregate_match_data applied to matches_data
Aggregate ==
    /\ apc = "idle"
    /\ trend_data' = aggregate_match_data(matches_data)
    /\ apc' = "done"
    /\ UNCHANGED matches_data
    /\ UNCHANGED <<envVars, conVars, promptVars, reqVars, llmVars, wpnVars>>

\* one fixed environment for the specifications of the pure functions
InitNoKeys ==
    /\ GEMINI_API_KEY = NoneStr
    /\ OPENAI_API_KEY = NoneStr
    /\ GEMINI_AVAILABLE = TRUE
    /\ openai_importable = TRUE

InitWeapons ==
    /\ InitNoKeys
    /\ InitReq
    /\ InitLLM
    /\ matches_data = <<>>
    /\ weapon_stats \in WeaponInputs
    /\ weapon_mastery = <<>>
    /\ wpc = "idle"
    /\ best_weapons = <<>>
    /\ weak_weapons = <<>>
    /\ shown_best = <<>>
    /\ shown_weak = <<>>
    /\ InitAgg
    /\ InitPromptVars
    /\ InitConVars

NextWeapons ==
    \/ ProcessWeaponStats
    \/ GenerateWeaponRecommendations

SpecWeapons == InitWeapons /\ [][NextWeapons]_vars

InitAggregator ==
    /\ InitNoKeys
    /\ InitReq
    /\ InitLLM
    /\ matches_data \in MatchInputs
    /\ InitWpn
    /\ InitAgg
    /\ InitPromptVars
    /\ InitConVars

NextAggregator == Aggregate

SpecAggregator == InitAggregator /\ [][NextAggregator]_vars

ClientCall(fn, out, value) == [fn |-> fn, out |-> out, value |-> value]

\* the five lookups of PUBGAPIService with what the stats API may do to each
ClientCalls ==
    {ClientCall("search_player", o, search_player_api(o)) : o \in SearchOutcomes}
    \cup {ClientCall("get_player_stats", o, get_player_stats_api(o)) :
              o \in StatsOutcomes}
    \cup {ClientCall("get_recent_matches", o, get_recent_matches_api(o)) :
              o \in MatchListOutcomes}
    \cup {ClientCall("get_match_details", o, get_match_details_api(o)) :
              o \in MatchOutcomes}
    \cup {ClientCall("get_weapon_stats", o, get_weapon_stats_api(o)) :
              o \in WeaponStatsOutcomes}

\* a lookup of the stats client called on its own, outside a request
DirectLookup ==
    /\ handler = "idle"
    /\ \E call \in ClientCalls :
          /\ upstream' = call.out
          /\ lookup' = Lookup(call.fn, call.value)
    /\ UNCHANGED <<handler, pc, player_id, match_details, teammates, response>>
    /\ UNCHANGED <<raised, stats_data, loopVars>>
    /\ UNCHANGED <<envVars, conVars, promptVars, llmVars, matches_data, wpnVars, aggVars>>

InitClient ==
    /\ InitNoKeys
    /\ InitReq
    /\ InitLLM
    /\ matches_data = <<>>
    /\ InitWpn
    /\ InitAgg
    /\ InitPromptVars
    /\ InitConVars

NextClient ==
    \/ DirectLookup
    \/ ReceivePlayerStats
    \/ PlayerStatsDone
    \/ ReceiveRecentMatches
    \/ RecentMatchesDone

SpecClient == InitClient /\ [][NextClient]_vars

\* analyze_player_trends called on the list the aggregator is applied to
CallTrendsOnInput ==
    /\ lpc = "constructed"
    /\ StartCall("analyze_player_trends")
    /\ UNCHANGED <<ai, game_mode, matches_data>>
    /\ UNCHANGED <<envVars, conVars, promptVars, reqVars, wpnVars, aggVars>>

InitTrends ==
    /\ InitEnv
    /\ InitReq
    /\ InitLLM
    /\ matches_data \in DirectInputs
    /\ InitWpn
    /\ InitAgg
    /\ InitPromptVars
    /\ InitConVars

NextTrends ==
    \/ Aggregate
    \/ DirectConstruct
    \/ CallTrendsOnInput
    \/ AnalyzePlayerTrends
    \/ CallGemini
    \/ ProbeOllama
    \/ CallOllama
    \/ GeminiFallOff
    \/ CallOpenAI

SpecTrends == InitTrends /\ [][NextTrends]_vars

-----------------------------------------------------------------------------
(* The analysis data, the prompt builder and the extraction on drawn inputs *)

\* the participant record of one match: counters zero or positive, or absent
CounterStats ==
    {[playerId |-> "account.p1", winPlace |-> 1, kills |-> k, dBNOs |-> d,
      headshotKills |-> h, damageDealt |-> dmg, timeSurvived |-> t] :
        k \in {0, 3}, d \in {0, 2}, h \in {0, 1}, dmg \in {0, 250},
        t \in {0, 1800}}
    \cup {[playerId |-> "account.p1", winPlace |-> 1]}

Teammate(kills, headshots, damage) ==
    [type |-> "participant",
     attributes |-> [stats |-> [playerId |-> "account.p2", kills |-> kills,
                                headshotKills |-> headshots,
                                damageDealt |-> damage]]]

TeammateLists ==
    {<<>>, <<Teammate(0, 0, 0)>>, <<Teammate(2, 1, 300), Teammate(0, 0, 40)>>}

Dash == <<"-">>

\* game-mode tags: the six ranked ones, an event mode, a tag in capitals, a
\* tag naming two families, the empty tag and a missing one
ModeTags ==
    {Solo, Solo \o Dash \o Fpp, Duo, Duo \o Dash \o Fpp,
     <<"s", "q", "u", "a", "d">>, SquadFpp,
     <<"t", "d", "m">>, <<"S", "O", "L", "O", "-", "F", "P", "P">>,
     Duo \o Dash \o Solo, <<>>}

\* weaponSummaries lists: none; a weapon never used beside one used with and
\* one used without a kill; a summary without its TimesUsed
PromptWeaponInputs ==
    {<<>>,
     Named(<<WeaponSummary(0, 0, 0, 0), WeaponSummary(20, 10, 3000, 4),
             WeaponSummary(12, 0, 350, 0)>>),
     Named(<<[Kills |-> 3, DamageDealt |-> 400]>>)}

MatchWith(stats) ==
    [data |-> [attributes |-> [gameMode |-> SquadFpp]],
     included |-> <<Roster,
                    [type |-> "participant",
                     attributes |-> [stats |-> stats]]>>]

\* match details for the extraction: the player with and without kills, with
\* no kills entry, and absent
ExtractInputs ==
    {MatchWith([playerId |-> "account.p1", kills |-> 3, headshotKills |-> 1,
                damageDealt |-> 250]),
     MatchWith([playerId |-> "account.p1", kills |-> 0, headshotKills |-> 0,
                damageDealt |-> 0]),
     MatchWith([playerId |-> "account.p1", headshotKills |-> 0]),
     MatchWith([playerId |-> "account.p2", kills |-> 1, headshotKills |-> 1])}

AnalysisInputs ==
    {[player_stats |-> ps, teammates_stats |-> ts,
      match_info |-> [gameMode |-> tag], match_details |-> md,
      player_id |-> "account.p1"] :
        ps \in CounterStats, ts \in TeammateLists,
        tag \in ModeTags \cup {NullMode}, md \in ExtractInputs}

\* _prepare_analysis_data, called by analyze_match_performance
PrepareAnalysisData ==
    /\ analysis_input # NoneVal
    /\ analysis_data = NoneVal
    /\ analysis_data' = prepare_analysis_data(analysis_input.player_stats,
                                              analysis_input.teammates_stats,
                                              analysis_input.match_info)
    /\ UNCHANGED <<analysis_input, prompt, match_weapons>>
    /\ UNCHANGED <<envVars, conVars, reqVars, llmVars, matches_data, wpnVars,
                   aggVars>>

\* _create_analysis_prompt on the prepared data and the processed weapons
CreateAnalysisPrompt ==
    /\ analysis_data # NoneVal
    /\ wpc # "idle"
    /\ prompt = NoneVal
    /\ prompt' = create_analysis_prompt(analysis_data, weapon_mastery)
    /\ UNCHANGED <<analysis_input, analysis_data, match_weapons>>
    /\ UNCHANGED <<envVars, conVars, reqVars, llmVars, matches_data, wpnVars,
                   aggVars>>

\* extract_match_weapons_data on the match details
ExtractMatchWeapons ==
    /\ analysis_input # NoneVal
    /\ match_weapons = NoneVal
    /\ match_weapons' = extract_match_weapons_data(analysis_input.match_details,
                                                   analysis_input.player_id)
    /\ UNCHANGED <<analysis_input, analysis_data, prompt>>
    /\ UNCHANGED <<envVars, conVars, reqVars, llmVars, matches_data, wpnVars,
                   aggVars>>

InitPrompt ==
    /\ InitNoKeys
    /\ InitReq
    /\ InitLLM
    /\ matches_data = <<>>
    /\ weapon_stats \in PromptWeaponInputs
    /\ weapon_mastery = <<>>
    /\ wpc = "idle"
    /\ best_weapons = <<>>
    /\ weak_weapons = <<>>
    /\ shown_best = <<>>
    /\ shown_weak = <<>>
    /\ InitAgg
    /\ analysis_input \in AnalysisInputs
    /\ analysis_data = NoneVal
    /\ prompt = NoneVal
    /\ match_weapons = NoneVal
    /\ InitConVars

NextPrompt ==
    \/ PrepareAnalysisData
    \/ ProcessWeaponStats
    \/ CreateAnalysisPrompt
    \/ GenerateWeaponRecommendations
    \/ ExtractMatchWeapons

SpecPrompt == InitPrompt /\ [][NextPrompt]_vars

\* the three configurations the constructor tells apart: Gemini, OpenAI, none
InitOverlapEnv ==
    /\ \/ GEMINI_API_KEY = "key" /\ OPENAI_API_KEY = NoneStr
       \/ GEMINI_API_KEY = NoneStr /\ OPENAI_API_KEY \in {"key", NoneStr}
    /\ GEMINI_AVAILABLE = TRUE
    /\ openai_importable = TRUE

InitConcurrent ==
    /\ InitOverlapEnv
    /\ InitReq
    /\ InitLLM
    /\ matches_data = <<>>
    /\ InitWpn
    /\ InitAgg
    /\ InitPromptVars
    /\ InitConVars

NextConcurrent ==
    \E r \in RequestIds :
        \/ ArriveAnalysis(r)
        \/ ConstructService(r)
        \/ AdvanceCall(r)
        \/ AnswerAnalysis(r)

SpecConcurrent == InitConcurrent /\ [][NextConcurrent]_vars

Init ==
    /\ InitEnv
    /\ InitReq
    /\ InitLLM
    /\ matches_data = <<>>
    /\ InitWpn
    /\ InitAgg
    /\ InitPromptVars
    /\ InitConVars

Next ==
    \/ ReceiveSearch
    \/ SearchPlayerDone
    \/ ReceiveAnalyzeMatch
    \/ AnalyzeMatchFetched
    \/ AnalyzeMatchPerformance
    \/ CallGemini
    \/ ProbeOllama
    \/ CallOllama
    \/ GeminiFallOff
    \/ CallOpenAI
    \/ AnalyzeMatchDone
    \/ ReceivePlayerStats
    \/ PlayerStatsDone
    \/ ReceiveRecentMatches
    \/ RecentMatchesDone
    \/ ReceiveProfile
    \/ ProfileSearched
    \/ ProfileStatsFetched
    \/ ProfileMatchesFetched
    \/ ProfileIssueFetch
    \/ ProfileFetchReturns
    \/ ProfileRender
    \/ ReceiveTrend
    \/ TrendMatchesFetched
    \/ TrendFetch
    \/ TrendLoopDone
    \/ AnalyzePlayerTrends
    \/ TrendDone

Spec == Init /\ [][Next]_vars

\* the event loop resumes a handler whenever the call it awaits has completed,
\* and every awaited call returns or raises: the stats client and the probe
\* and fallback calls carry timeouts, the provider libraries return or raise
FairSpec == Spec /\ WF_vars(Next)

NextLLM ==
    \/ DirectConstruct
    \/ DirectCallMatch
    \/ DirectCallTrends
    \/ LLMStep

SpecLLM == Init /\ [][NextLLM]_vars

-----------------------------------------------------------------------------
(* Properties *)

\* the lookup of analyze_match found no match, no participant records, or no
\* participant with the requested player id
LookupFailed ==
    \/ Falsy(match_details)
    \/ /\ "included" \in DOMAIN match_details
       /\ \/ Participants(match_details) = <<>>
          \/ ~HasPlayer(Participants(match_details), player_id)

\* C1: when analyze_match cannot fetch the match, finds no participant
\* records, or finds no participant with the requested player_id, the
\* response status is 404.
C1_LookupFailureIs404 ==
    (handler = "analyze_match" /\ pc = "done" /\ LookupFailed)
        => response.status = 404

\* the stats API gave no matching player, or the lookup failed
NoPlayerFound == upstream.kind # "ok" \/ ~HasData(upstream.json)

\* C2: when the stats API returns no matching player, or the lookup fails,
\* POST /api/player/search answers 404 with the not-found message, never 5xx.
C2_SearchNotFoundIs404 ==
    (handler = "search_player" /\ pc = "done" /\ NoPlayerFound)
        => /\ response.status = 404
           /\ response.body.detail = Detail("player_not_found")
           /\ response.status \notin 500..599

C2_Witness ==
    /\ handler = "search_player"
    /\ pc = "done"
    /\ upstream = Ok([data |-> PyList(<<>>)])
    /\ response.status = 404

NeitherKey == ~KeySet(GEMINI_API_KEY) /\ ~KeySet(OPENAI_API_KEY)

ProviderStates == {"gemini", "probe", "ollama", "fall_off", "openai"}

NoRemoteCall ==
    /\ lpc \notin ProviderStates
    /\ n_gemini = 0
    /\ n_probe = 0
    /\ n_ollama = 0
    /\ n_openai = 0

\* C3 as stated: with neither credential configured, every analysis call,
\* analyze_match_performance and analyze_player_trends alike, returns the
\* fixed "not configured" string.
C3_EveryCallNotConfigured ==
    (NeitherKey /\ lpc = "returned") => result = NotConfiguredMsg

\* C3 amended: with neither credential configured, analyze_match_performance
\* returns the fixed "not configured" string, analyze_player_trends returns
\* None, and neither reaches a provider.
C3_NotConfigured ==
    (NeitherKey /\ ai # NoService)
        => /\ NoRemoteCall
           /\ (lpc = "returned" /\ method = "analyze_match_performance")
                  => result = NotConfiguredMsg
           /\ (lpc = "returned" /\ method = "analyze_player_trends")
                  => result = NoneVal

C3_Witness ==
    /\ NeitherKey
    /\ lpc = "returned"
    /\ method = "analyze_player_trends"
    /\ matches_data # <<>>
    /\ result = NoneVal

\* the provider __init__ selects
GeminiChosen == KeySet(GEMINI_API_KEY) /\ GEMINI_AVAILABLE

OpenAIChosen == ~GeminiChosen /\ KeySet(OPENAI_API_KEY) /\ openai_importable

\* the analysis call in progress gets as far as a provider
ReachesProvider ==
    /\ ~(method = "analyze_match_performance" /\ PromptRaises(game_mode))
    /\ ~(method = "analyze_player_trends" /\ matches_data = <<>>)

\* C4 as stated: a configured Gemini key selects Gemini, otherwise a
\* configured OpenAI key selects OpenAI, otherwise every call returns the
\* "not configured" message.
C4_KeysAloneDecide ==
    ai # NoService
        => /\ KeySet(GEMINI_API_KEY) => ai.use_gemini
           /\ (~KeySet(GEMINI_API_KEY) /\ KeySet(OPENAI_API_KEY))
                  => (~ai.use_gemini /\ ~NoKey(ai))
           /\ (NeitherKey /\ lpc = "returned") => result = NotConfiguredMsg

C4_Selection ==
    ai # NoService
        => /\ ai.use_gemini = GeminiChosen
           /\ NoKey(ai) = (~GeminiChosen /\ ~OpenAIChosen)
           /\ (lpc \in {"gemini", "probe", "ollama", "fall_off"}
                  \/ n_gemini + n_probe + n_ollama > 0) => GeminiChosen
           /\ (lpc = "openai" \/ n_openai > 0) => OpenAIChosen
           /\ (GeminiChosen /\ lpc = "returned" /\ ReachesProvider)
                  => (n_gemini = 1 /\ n_openai = 0)
           /\ (OpenAIChosen /\ lpc = "returned" /\ ReachesProvider)
                  => (n_openai = 1 /\ n_gemini = 0)
           /\ (~GeminiChosen /\ ~OpenAIChosen)
                  => /\ NoRemoteCall
                     /\ (lpc = "returned" /\ method = "analyze_match_performance")
                            => result = NotConfiguredMsg
                     /\ (lpc = "returned" /\ method = "analyze_player_trends")
                            => result = NoneVal

\* C4 amended: the provider is decided once, at construction, and kept: Gemini
\* if its key is configured and its library imported, otherwise OpenAI if its
\* key is configured and its library imports, otherwise none.  Every later
\* call that reaches a provider calls the chosen one (Gemini first, then at
\* most its local fallback); with none chosen no remote service is called,
\* analyze_match_performance returns the "not configured" message and
\* analyze_player_trends returns None.
C4_ProviderDecidedAtConstruction ==
    /\ []C4_Selection
    /\ [][ai # NoService => ai' = ai]_vars

C4_Witness ==
    /\ KeySet(GEMINI_API_KEY)
    /\ ~GEMINI_AVAILABLE
    /\ OpenAIChosen
    /\ calls = 2
    /\ lpc = "returned"
    /\ n_openai = 1

\* C5: when the Gemini call fails with a message holding "429" or "quota",
\* _call_gemini_api returns the fixed quota fallback message.
C5_QuotaFailureGivesFallbackMessage ==
    (lpc = "returned" /\ n_gemini > 0 /\ error_msg # NoError
        /\ HasQuotaMarker(error_msg))
        => result = QuotaFallbackMsg

\* C6: within one generate call the first provider is called at most once and
\* the local fallback generation is attempted at most once, and only after
\* the first provider has failed; then the call gives up.
C6_AtMostOneFallbackAttempt ==
    /\ n_gemini <= 1
    /\ n_probe <= 1
    /\ n_ollama <= 1
    /\ n_probe = 1 => (n_gemini = 1 /\ error_msg # NoError)
    /\ n_ollama = 1 => n_probe = 1
    /\ lpc = "fall_off" => (n_gemini = 1 /\ n_probe = 1)

C6_Witness ==
    /\ lpc = "returned"
    /\ n_gemini = 1
    /\ n_ollama = 1
    /\ result = NoneVal

\* the names of the entries of a ranking list
Names(entries) == {entries[i][1] : i \in DOMAIN entries}

\* C7: a weapon whose times_used is below 10 is in neither the strong nor the
\* weak list, whatever its other counters.
C7_RarelyUsedExcluded ==
    wpc = "done"
        => \A i \in DOMAIN weapon_mastery :
              weapon_mastery[i][2].times_used < 10
                  => /\ weapon_mastery[i][1] \notin Names(best_weapons)
                     /\ weapon_mastery[i][1] \notin Names(weak_weapons)
                     /\ weapon_mastery[i][1] \notin Names(shown_best)
                     /\ weapon_mastery[i][1] \notin Names(shown_weak)

C7_Witness ==
    /\ wpc = "done"
    /\ best_weapons # <<>>
    /\ \E i \in DOMAIN weapon_mastery :
          /\ weapon_mastery[i][2].times_used = 9
          /\ weapon_mastery[i][2].kills = 9

\* score = 100*kills/times_used + 0.1*damage/times_used + 50*headshots/kills,
\* cleared of its denominators
ScoreMatches(score, stats) ==
    IF stats.kills > 0
    THEN score[1] * (10 * stats.times_used * stats.kills)
           = score[2] * (1000 * stats.kills * stats.kills
                          + stats.damage * stats.kills
                          + 500 * stats.headshots * stats.times_used)
    ELSE score[1] * (10 * stats.times_used) = score[2] * stats.damage

IsFixture(stats) ==
    /\ stats.times_used = 20
    /\ stats.kills = 10
    /\ stats.damage = 3000
    /\ stats.headshots = 4

\* C8: for every weapon used at least 10 times the score is 100*kill_rate +
\* 0.1*avg_damage_per_use + 50*headshot_rate with kill_rate = kills/times_used
\* and headshot_rate = headshots/kills (0 without kills); times_used 20,
\* kills 10, damage 3000, headshots 4 gives 0.5, 150, 0.4 and the score 85.
C8_ScoreFormula ==
    wpc = "done"
        => /\ \A i \in DOMAIN weapon_mastery :
                 LET stats == weapon_mastery[i][2]
                 IN  stats.times_used >= 10
                        => /\ ScoreMatches(weapon_score(stats), stats)
                           /\ IsFixture(stats)
                                  => /\ RatEq(kill_rate(stats), <<1, 2>>)
                                     /\ RatEq(stats.avg_damage_per_use, Rat(150))
                                     /\ RatEq(headshot_rate(stats), <<2, 5>>)
                                     /\ RatEq(weapon_score(stats), Rat(85))
           /\ \A i \in DOMAIN best_weapons :
                 ScoreMatches(best_weapons[i][3], best_weapons[i][2])
           /\ \A i \in DOMAIN weak_weapons :
                 ScoreMatches(weak_weapons[i][3], weak_weapons[i][2])

C8_Witness ==
    /\ wpc = "done"
    /\ \E i \in DOMAIN best_weapons :
          /\ IsFixture(best_weapons[i][2])
          /\ best_weapons[i][3] = Rat(85)

\* the weapons the ranking does not skip, as a set of positions
Ranked == {i \in DOMAIN weapon_mastery : weapon_mastery[i][2].times_used >= 10}

ScoreAt(i) == weapon_score(weapon_mastery[i][2])

StrongNames ==
    {weapon_mastery[i][1] : i \in {j \in Ranked : RatLt(Rat(30), ScoreAt(j))}}

WeakNames ==
    {weapon_mastery[i][1] : i \in {j \in Ranked : RatLt(ScoreAt(j), Rat(15))}}

\* list is ordered by score, best first when descending
Ordered(list, descending) ==
    \A i, j \in DOMAIN list :
        i < j => IF descending THEN ~RatLt(list[i][3], list[j][3])
                 ELSE ~RatLt(list[j][3], list[i][3])

IsPrefix(shown, list, n) ==
    /\ Len(shown) = Min(n, Len(list))
    /\ \A i \in DOMAIN shown : shown[i] = list[i]

\* C9 as stated: the top 3 of each list are reported.
C9_ThreeOfEachReported ==
    wpc = "done"
        => /\ Len(shown_best) = Min(3, Len(best_weapons))
           /\ Len(shown_weak) = Min(3, Len(weak_weapons))

\* C9 amended: the ranked weapons with a score above 30 form the strong list
\* and those with a score below 15 the weak list; strong is ordered by score
\* descending and weak ascending; the 3 highest-scoring strong weapons and
\* the 2 lowest-scoring weak weapons are reported (all of a shorter list).
C9_RankingReported ==
    wpc = "done"
        => /\ Names(best_weapons) = StrongNames
           /\ Names(weak_weapons) = WeakNames
           /\ Len(best_weapons) = Cardinality(StrongNames)
           /\ Len(weak_weapons) = Cardinality(WeakNames)
           /\ Ordered(best_weapons, TRUE)
           /\ Ordered(weak_weapons, FALSE)
           /\ IsPrefix(shown_best, best_weapons, 3)
           /\ IsPrefix(shown_weak, weak_weapons, 2)

C9_Witness ==
    /\ wpc = "done"
    /\ Len(best_weapons) = 1
    /\ Len(weak_weapons) = 3
    /\ Len(shown_weak) = 2
    /\ RatLt(weak_weapons[1][3], weak_weapons[3][3])

\* the last n values of a field of matches_data, defaults filled in
LastValues(trend, key, default) ==
    \A i \in 1..Len(trend) :
        trend[i] = Get(matches_data[Len(matches_data) - Len(trend) + i],
                       key, default)

\* C10: each trend sequence (kills, rank, knockdowns, revives) has length
\* min(len(sequence), 10) and holds the values of the last min(len, 10)
\* records in their original order.
C10_TrendIsTrailingSlice ==
    apc = "done"
        => IF matches_data = <<>>
           THEN trend_data = EmptyDict
           ELSE /\ Len(trend_data.kill_trend) = Min(Len(matches_data), 10)
                /\ Len(trend_data.rank_trend) = Min(Len(matches_data), 10)
                /\ Len(trend_data.dbnos_trend) = Min(Len(matches_data), 10)
                /\ Len(trend_data.revives_trend) = Min(Len(matches_data), 10)
                /\ LastValues(trend_data.kill_trend, "kills", 0)
                /\ LastValues(trend_data.rank_trend, "rank", 100)
                /\ LastValues(trend_data.dbnos_trend, "dbnos", 0)
                /\ LastValues(trend_data.revives_trend, "revives", 0)

C10_Witness ==
    /\ apc = "done"
    /\ Len(matches_data) = 12
    /\ matches_data[1] = MatchRecordA
    /\ matches_data[3] = MatchRecordB
    /\ matches_data[4] = MatchRecordA
    /\ Len(trend_data.kill_trend) = 10
    /\ trend_data.kill_trend[1] = 0
    /\ trend_data.kill_trend[2] = 1

\* C11: aggregating an empty list returns the empty dictionary and raises
\* nothing, and analyze_player_trends on an empty list returns None without a
\* call to Gemini, to the Ollama fallback or to OpenAI
C11_EmptyInputIsQuiet ==
    matches_data = <<>> =>
        /\ (apc = "done" => trend_data = EmptyDict)
        /\ (method = "analyze_player_trends" =>
                /\ NoRemoteCall
                /\ lpc \notin ProviderStates
                /\ (lpc = "returned" => result = NoneVal))

\* a configured service was given an empty list, and the aggregator too
C11_Witness ==
    /\ matches_data = <<>>
    /\ apc = "done"
    /\ trend_data = EmptyDict
    /\ method = "analyze_player_trends"
    /\ lpc = "returned"
    /\ ~NoKey(ai)
    /\ result = NoneVal


RECURSIVE TotalUpTo(_, _, _, _)
TotalUpTo(data, n, key, default) ==
    IF n = 0 THEN 0
    ELSE TotalUpTo(data, n - 1, key, default) + Get(data[n], key, default)

\* avg is the sum of the field over every record divided by their number
IsMeanOfAll(avg, data, key, default) ==
    RatMul(avg, Rat(Len(data))) = Rat(TotalUpTo(data, Len(data), key, default))

\* C16: each average the aggregator reports is the arithmetic mean of that
\* field over all records of the list, not over the trailing ten
C16_MeansOverAllRecords ==
    (apc = "done" /\ matches_data # <<>>) =>
        /\ IsMeanOfAll(trend_data.avg_kills, matches_data, "kills", 0)
        /\ IsMeanOfAll(trend_data.avg_damage, matches_data, "damage", 0)
        /\ IsMeanOfAll(trend_data.avg_dbnos, matches_data, "dbnos", 0)
        /\ IsMeanOfAll(trend_data.avg_revives, matches_data, "revives", 0)
        /\ IsMeanOfAll(trend_data.avg_assists, matches_data, "assists", 0)
        /\ IsMeanOfAll(trend_data.avg_headshots, matches_data, "headshots", 0)
        /\ IsMeanOfAll(trend_data.avg_rank, matches_data, "rank", 100)

\* more than ten records, and the trailing ten have another mean of kills
C16_Witness ==
    /\ apc = "done"
    /\ Len(matches_data) > TrendWindow
    /\ ~IsMeanOfAll(trend_data.avg_kills, TrendSlice(matches_data), "kills", 0)


\* the response is a 500 whose detail embeds the text of exc
Is500Carrying(resp, exc) ==
    /\ resp.status = 500
    /\ "cause" \in DOMAIN resp.body.detail
    /\ resp.body.detail.cause = exc

\* the response is the error page and its message embeds the text of exc
IsErrorPageCarrying(resp, exc) ==
    /\ resp.status = 200
    /\ "template" \in DOMAIN resp.body
    /\ resp.body.template = "error.html"
    /\ "cause" \in DOMAIN resp.body.context.error
    /\ resp.body.context.error.cause = exc

CarriesException(resp, exc) ==
    Is500Carrying(resp, exc) \/ IsErrorPageCarrying(resp, exc)

TryHandlers == {"player_profile", "analyze_match", "get_trend_analysis"}

BareHandlers == {"search_player", "get_player_stats", "get_recent_matches"}

\* C12 as claimed: in every handler an exception that is not an HTTPException
\* ends in an error response that carries the exception's text
C12_EveryHandlerHasBoundary ==
    (pc = "done" /\ raised # NoException /\ raised.type # "HTTPException") =>
        CarriesException(response, raised)

\* C12: player_profile, analyze_match and get_trend_analysis answer any
\* exception raised in their body with the error page or a 500 that carries
\* the exception's text; search_player, get_player_stats and
\* get_recent_matches have no except clause, so the framework answers an
\* exception of theirs: the HTTPException's own status, else a bare 500
C12_TryHandlersWrap ==
    (pc = "done" /\ raised # NoException) =>
        /\ handler \in TryHandlers => CarriesException(response, raised)
        /\ handler \in BareHandlers =>
              /\ ~CarriesException(response, raised)
              /\ raised.type = "HTTPException" =>
                    response.status = raised.status_code
              /\ raised.type # "HTTPException" =>
                    response = [status |-> 500,
                                body |-> [detail |-> Detail("Internal Server Error")]]

\* the profile page met a player record without id
C12_Witness ==
    /\ handler = "player_profile"
    /\ pc = "done"
    /\ raised = KeyError
    /\ IsErrorPageCarrying(response, KeyError)


\* get_trend_analysis ended on an empty or None match list, or after a loop
\* in which no fetched match contained the player
TrendFoundNothing ==
    /\ handler = "get_trend_analysis"
    /\ pc = "done"
    /\ \/ Falsy(recent_matches)
       \/ /\ issued = Len(LoopItems(recent_matches, TrendLimit))
          /\ matches_data = <<>>

\* C13: a trend analysis that finds no match list, or no match with the
\* player in it, is answered with a 4xx (the 404 the handler raises)
C13_TrendNotFoundIs404 ==
    TrendFoundNothing => (response.status >= 400 /\ response.status < 500)


\* C14: when the stats API fails in transport, answers an error status or
\* sends a body that does not parse, each of the five lookups returns None,
\* and the stats and matches endpoints answer 404
C14_FailedLookupIsNone ==
    upstream \in UpstreamFailures =>
        /\ lookup.value = NoneVal
        /\ (pc = "done" /\ handler \in {"get_player_stats", "get_recent_matches"}) =>
              /\ response.status = 404
              /\ raised.type = "HTTPException"

\* the stats endpoint answered 404 after a transport failure
C14_Witness ==
    /\ handler = "get_player_stats"
    /\ pc = "done"
    /\ upstream = [kind |-> "transport_error"]
    /\ lookup = Lookup("get_player_stats", NoneVal)
    /\ response.status = 404


\* a 4xx, a 5xx or the rendered error page
IsErrorResponse(resp) ==
    \/ resp.status >= 400
    \/ /\ resp.status = 200
       /\ "template" \in DOMAIN resp.body
       /\ resp.body.template = "error.html"

\* the provider call of the current analysis failed
ProviderFailed ==
    \/ error_msg # NoError
    \/ /\ result.kind = "error_text"
       /\ result.prefix = "openai_call_failed"

FirstLookup ==
    [h \in TryHandlers \cup BareHandlers |->
        CASE h \in {"search_player", "player_profile"} -> "search_player"
          [] h = "get_player_stats" -> "get_player_stats"
          [] h \in {"get_recent_matches", "get_trend_analysis"} -> "get_recent_matches"
          [] h = "analyze_match" -> "get_match_details"]

FirstLookupFailed ==
    /\ pc = "done"
    /\ upstream \in UpstreamFailures
    /\ lookup.fn = FirstLookup[handler]

C17_DetailFetchesOneAtATime ==
    /\ [](handler = "player_profile" =>
            (outstanding <= 1 /\ issued <= ProfileLimit))
    /\ [][(handler = "player_profile" /\ issued' # issued) =>
            (outstanding = 0 /\ outstanding' = 1 /\ issued' = issued + 1)]_vars

\* the twentieth fetch of a request is outstanding, the match list being
\* longer than twenty before the client cut it
C17_Witness ==
    /\ handler = "player_profile"
    /\ issued = ProfileLimit
    /\ outstanding = 1
    /\ n_detailed > 0
    /\ MaxMatchList > ProfileLimit


-----------------------------------------------------------------------------
(* The derived metrics and the sections of the prompt *)

\* the prompt builder returned its prompt
PromptBuilt == prompt # NoneVal /\ prompt.kind = "return"

\* the player is among the participants handed to the extraction
PlayerListed ==
    \E i \in DOMAIN analysis_input.match_details.included :
        Get(StatsOf(analysis_input.match_details.included[i]), "playerId",
            NoneStr) = analysis_input.player_id

\* C19: no derived-metric computation divides by zero.  For all non-negative
\* counters, zero kills, knockdowns, uses and survival time and an empty
\* teammate list included, the prompt builder raises no ZeroDivisionError and
\* every number it writes is a proper quotient; every processed weapon has its
\* average damage; every ranked weapon has its kill and headshot rates; and
\* the extraction returns the record of a listed player, which it would
\* replace by {} had a division failed.
C19_NoDivisionByZero ==
    /\ prompt # Raise(ZeroDivisionError)
    /\ PromptBuilt =>
           \A i \in DOMAIN prompt.value.metrics : prompt.value.metrics[i][2] > 0
    /\ wpc # "idle" =>
           \A i \in DOMAIN weapon_mastery :
               /\ weapon_mastery[i][2].avg_damage_per_use # NaR
               /\ wpc = "done" /\ ~Excluded(weapon_mastery[i][2]) =>
                      /\ kill_rate(weapon_mastery[i][2]) # NaR
                      /\ headshot_rate(weapon_mastery[i][2]) # NaR
    /\ wpc = "done" =>
           \A i \in DOMAIN best_weapons : best_weapons[i][3][2] > 0
    /\ wpc = "done" =>
           \A i \in DOMAIN weak_weapons : weak_weapons[i][3][2] > 0
    /\ match_weapons # NoneVal /\ PlayerListed =>
           /\ match_weapons # EmptyDict
           /\ match_weapons.headshot_rate[2] > 0

\* every counter is zero, no teammate, a weapon never used, and all four
\* computations have finished
C19_Witness ==
    /\ PromptBuilt
    /\ analysis_data.player.kills = 0
    /\ analysis_data.player.dbnos = 0
    /\ analysis_data.player.survival_time = Rat(0)
    /\ Len(analysis_data.teammates) = 0
    /\ wpc = "done"
    /\ \E i \in DOMAIN weapon_mastery : weapon_mastery[i][2].times_used = 0
    /\ \E i \in DOMAIN weapon_mastery :
           /\ ~Excluded(weapon_mastery[i][2])
           /\ weapon_mastery[i][2].kills = 0
    /\ match_weapons # NoneVal
    /\ PlayerListed
    /\ match_weapons.total_kills = 0

\* the tags whose lower-cased text contains "solo", read off ModeTags
SoloTags ==
    {<<"s", "o", "l", "o">>, <<"s", "o", "l", "o", "-", "f", "p", "p">>,
     <<"S", "O", "L", "O", "-", "F", "P", "P">>,
     <<"d", "u", "o", "-", "s", "o", "l", "o">>}

\* the tags whose lower-cased text contains "duo"
DuoTags ==
    {<<"d", "u", "o">>, <<"d", "u", "o", "-", "f", "p", "p">>,
     <<"d", "u", "o", "-", "s", "o", "l", "o">>}

\* the tags whose lower-cased text contains "fpp"
FppTags ==
    {<<"s", "o", "l", "o", "-", "f", "p", "p">>,
     <<"d", "u", "o", "-", "f", "p", "p">>,
     <<"s", "q", "u", "a", "d", "-", "f", "p", "p">>,
     <<"S", "O", "L", "O", "-", "F", "P", "P">>}

ExpectedMode(tag) ==
    IF tag \in SoloTags THEN "solo"
    ELSE IF tag \in DuoTags THEN "duo" ELSE "squad"

ExpectedPerspective(tag) == IF tag \in FppTags THEN "fpp" ELSE "tpp"

\* C20: for every game-mode tag the prompt carries one mode section and one
\* perspective section: solo if the lower-cased tag contains "solo", else duo
\* if it contains "duo", else squad, also for an empty or unknown tag; first
\* person if it contains "fpp", else third person; and the weapon
\* recommendations, when there are weapon data, are those of the same mode.
C20_OneModeOnePerspective ==
    PromptBuilt =>
        /\ analysis_data.match.game_mode \in ModeTags
        /\ prompt.value.mode_context =
               ExpectedMode(analysis_data.match.game_mode)
        /\ prompt.value.perspective_context =
               ExpectedPerspective(analysis_data.match.game_mode)
        /\ prompt.value.mode_recommendations \in
               {"generic", ExpectedMode(analysis_data.match.game_mode)}
        /\ prompt.value.mode_recommendations = "generic" <=>
               Len(weapon_mastery) = 0

\* an empty tag got the squad and third-person sections and the squad weapons
C20_Witness ==
    /\ PromptBuilt
    /\ analysis_data.match.game_mode = <<>>
    /\ prompt.value.mode_context = "squad"
    /\ prompt.value.perspective_context = "tpp"
    /\ prompt.value.mode_recommendations = "squad"

-----------------------------------------------------------------------------
(* Requests in flight at once *)

Constructed(r) == requests[r].service # 0

-----------------------------------------------------------------------------
(* The teammates of a match analysis *)

\* analyze_match has answered 200
AnalyzeSucceeded ==
    /\ handler = "analyze_match"
    /\ pc = "done"
    /\ response.status = 200

\* the entries of "included" that are participants placed as the requesting
\* player and carrying another player id
MateEntries ==
    {i \in DOMAIN match_details.included :
        /\ match_details.included[i].type = "participant"
        /\ match_details.included[i].attributes.stats.winPlace =
               response.body.player_stats.winPlace
        /\ match_details.included[i].attributes.stats.playerId # player_id}

\* how often the entry occurs in the list
Occurrences(list, entry) == Cardinality({k \in DOMAIN list : list[k] = entry})

\* C21: in a successful match-analyze response the teammates are exactly the
\* participant entries whose winPlace is that of the requesting player and
\* whose playerId is another one; the requesting player is never among them,
\* and teammates_count is the number of those entries.
C21_TeammatesAreSamePlaceOthers ==
    AnalyzeSucceeded =>
        /\ response.body.player_stats.playerId = player_id
        /\ response.body.teammates_count = Cardinality(MateEntries)
        /\ Len(teammates) = Cardinality(MateEntries)
        /\ \A k \in DOMAIN teammates :
               /\ teammates[k].attributes.stats.playerId # player_id
               /\ teammates[k].attributes.stats.winPlace =
                      response.body.player_stats.winPlace
        /\ \A i \in MateEntries :
               Occurrences(teammates, match_details.included[i]) =
                   Cardinality({j \in MateEntries :
                       match_details.included[j] = match_details.included[i]})

\* one teammate counted, beside the player and a participant placed elsewhere
C21_Witness ==
    /\ AnalyzeSucceeded
    /\ response.body.teammates_count = 1
    /\ \E i \in DOMAIN match_details.included :
           /\ match_details.included[i].type = "participant"
           /\ match_details.included[i].attributes.stats.winPlace #
                  response.body.player_stats.winPlace

-----------------------------------------------------------------------------
(* Provider failures on the analysis path *)

\* the Gemini call of the current analysis call has raised
GeminiFailed == n_gemini > 0 /\ error_msg # NoError

\* an analysis handler has answered after its call reached a provider
AnsweredAfterProvider ==
    /\ handler \in {"analyze_match", "get_trend_analysis"}
    /\ pc = "done"
    /\ n_gemini + n_openai > 0

\* C22: a provider failure never surfaces as an exception or an HTTP error.
\* After a Gemini failure _call_gemini_api returns the fallback's text or, when
\* the fallback was not reached, failed its probe or failed to generate, None;
\* after an OpenAI failure the call returns an error text and no fallback is
\* contacted; and the handler answers 200 with that value as its analysis.
C22_ProviderFailureIsNotAnError ==
    /\ lpc = "returned" /\ GeminiFailed =>
           /\ result \in {NoneVal, Generated("ollama")}
           /\ n_ollama = 0 => result = NoneVal
           /\ n_openai = 0
    /\ lpc = "returned" /\ n_openai > 0 =>
           /\ result \in {Generated("openai")}
                  \cup {ErrorText("openai_call_failed", e) : e \in ErrorMsgs}
           /\ n_gemini = 0 /\ n_probe = 0 /\ n_ollama = 0
    /\ AnsweredAfterProvider =>
           /\ raised = NoException
           /\ response.status = 200
           /\ handler = "analyze_match" => response.body.analysis = result
           /\ handler = "get_trend_analysis" =>
                  response.body.trend_analysis = result

\* Gemini failed, the probe answered 200, the fallback failed to generate, and
\* analyze_match answered 200 with a null analysis
C22_Witness ==
    /\ handler = "analyze_match"
    /\ pc = "done"
    /\ GeminiFailed
    /\ n_probe = 1
    /\ n_ollama = 1
    /\ response.status = 200
    /\ response.body.analysis = NoneVal

-----------------------------------------------------------------------------
(* The order of the fallback's calls *)

\* C23: the local fallback is contacted only after a failure of the first
\* provider, and its generation request is sent only after its probe has
\* answered 200: whenever a generation request has been sent or is about to
\* be, Gemini has failed in this call and the probe came back with status 200;
\* after a probe that raised or answered another status no generation request
\* is sent.
C23_FallbackOnlyAfterFailureAndProbe ==
    /\ n_probe > 0 => GeminiFailed
    /\ probe_status # NotProbed <=> n_probe > 0
    /\ (n_ollama > 0 \/ lpc = "ollama") =>
           /\ GeminiFailed
           /\ n_probe > 0
           /\ probe_status = "status_200"
    /\ probe_status \in {"exception", "status_other"} =>
           /\ n_ollama = 0
           /\ lpc \in {"fall_off", "returned"}
    /\ n_openai > 0 => n_probe = 0 /\ n_ollama = 0

\* the generation request went out after a Gemini failure and a probe of 200
C23_Witness ==
    /\ lpc = "returned"
    /\ GeminiFailed
    /\ probe_status = "status_200"
    /\ n_ollama = 1
    /\ result = Generated("ollama")

====
